---------------------------- MODULE Spec2Model ----------------------------
(***************************************************************************)
(* Model of the url_shortener authentication core: the hand-written JWT    *)
(* codec (src/src/user/jwt.rs), salted password hashing (src/src/user.rs)  *)
(* and the login / request-authentication handlers (src/src/main.rs).      *)
(*                                                                         *)
(* Rust strings are modelled as sequences of bytes (naturals 0..255), so   *)
(* that formatting, base64, hex and splitting work on the same data the    *)
(* code works on.  The two digests (SHA-512, HMAC-SHA-256) are modelled as *)
(* ideal, collision-free functions: the digest of a message is a tagged    *)
(* copy of its input.                                                      *)
(***************************************************************************)
EXTENDS Integers, Sequences, FiniteSets, TLC

VARIABLES
    token,        \* jwt.rs: the Jwt value under test {header, payload, signature}
    sealed,       \* the secret and payload the token's signature was computed from
    tampers,      \* number of payload fields overwritten since the token was sealed
    finalized,    \* the last Jwt::finalize call and its result
    verified,     \* the last Jwt::verify call and its result
    parsed,       \* the last Jwt::from_str_secret call and its result
    stored,       \* user.rs: the UserRow.hashed_pw under test, with its origin
    pwResult,     \* the last verify_pw call and its result
    users,        \* rows of the users table
    users_id_seq, \* the sequence that numbers the rows of the users table
    now,          \* the system clock, in seconds
    lastLogin,    \* the last attempt_login call and its response
    failures,     \* (cause, response) of the attempt_login calls that failed
    lastAuth,     \* the last authenticate_request call and its outcome
    urls,         \* url_db.rs: rows of the urls table
    urls_id_seq,  \* the sequence that numbers the rows of the urls table
    created,      \* the create_url calls that returned: arguments, table before, result
    lastRetrieved,\* the last retrieve_url call and its result
    encoded,      \* two payloads and the strings Display gives for them
    procs         \* the calls in progress: each one's position and locals

vars == <<token, sealed, tampers, finalized, verified, parsed, stored, pwResult,
          users, users_id_seq, now, lastLogin, failures, lastAuth,
          urls, urls_id_seq, created, lastRetrieved, encoded, procs>>

jwtVars    == <<token, sealed, tampers, finalized, verified, parsed>>
pwVars     == <<stored, pwResult>>
serverVars == <<users, users_id_seq, now, lastLogin, failures>>
urlVars    == <<urls, urls_id_seq, created, lastRetrieved>>
encVars    == <<encoded>>
procVars   == <<procs>>

None == [none |-> TRUE]

-----------------------------------------------------------------------------
(* Strings as byte sequences *)

\* Printable ASCII, code 32 .. 126, in code order (code 96 is spelled GRAVE).
ASCII ==
    <<" ", "!", "\"", "#", "$", "%", "&", "'", "(", ")", "*", "+", ",", "-", ".", "/",
      "0", "1", "2", "3", "4", "5", "6", "7", "8", "9", ":", ";", "<", "=", ">", "?",
      "@", "A", "B", "C", "D", "E", "F", "G", "H", "I", "J", "K", "L", "M", "N", "O",
      "P", "Q", "R", "S", "T", "U", "V", "W", "X", "Y", "Z", "[", "\\", "]", "^", "_",
      "GRAVE", "a", "b", "c", "d", "e", "f", "g", "h", "i", "j", "k", "l", "m", "n", "o",
      "p", "q", "r", "s", "t", "u", "v", "w", "x", "y", "z", "{", "|", "}", "~">>

Ord(c) == 31 + (CHOOSE i \in 1..Len(ASCII) : ASCII[i] = c)

\* The bytes of a literal, given as the tuple of its characters.
Str(chars) == [i \in 1..Len(chars) |-> Ord(chars[i])]

Concat(parts) ==
    LET RECURSIVE Go(_)
        Go(i) == IF i > Len(parts) THEN <<>> ELSE parts[i] \o Go(i + 1)
    IN  Go(1)

Drop(s, n) == SubSeq(s, n + 1, Len(s))
Take(s, n) == SubSeq(s, 1, n)

StartsWith(s, p) == Len(s) >= Len(p) /\ Take(s, Len(p)) = p

\* Index of the first occurrence of byte b in s, 0 if there is none.
IndexOf(s, b) ==
    IF \E i \in 1..Len(s) : s[i] = b
    THEN CHOOSE i \in 1..Len(s) : s[i] = b /\ \A j \in 1..(i - 1) : s[j] # b
    ELSE 0

DOT   == Ord(".")
HASH  == Ord("#")
QUOTE == Ord("\"")

\* str::split(sep): the pieces between the separators, empty pieces included.
Split(s, sep) ==
    LET RECURSIVE Go(_)
        Go(rest) ==
            LET i == IndexOf(rest, sep)
            IN  IF i = 0 THEN <<rest>>
                ELSE <<Take(rest, i - 1)>> \o Go(Drop(rest, i))
    IN  Go(s)

\* str::split_terminator(sep): as split, but a final empty piece is dropped.
SplitTerminator(s, sep) ==
    LET all == Split(s, sep)
    IN  IF all[Len(all)] = <<>> THEN Take(all, Len(all) - 1) ELSE all

\* Decimal rendering of an integer, as Display formats i64 and u64.
RECURSIVE DecDigits(_)
DecDigits(n) ==
    IF n < 10 THEN <<Ord("0") + n>>
    ELSE DecDigits(n \div 10) \o <<Ord("0") + (n % 10)>>

IntToString(n) == IF n < 0 THEN <<Ord("-")>> \o DecDigits(-n) ELSE DecDigits(n)

-----------------------------------------------------------------------------
(* base64 (STANDARD_NO_PAD) and hex *)

B64_STANDARD ==
    Str(<<"A", "B", "C", "D", "E", "F", "G", "H", "I", "J", "K", "L", "M", "N", "O", "P",
          "Q", "R", "S", "T", "U", "V", "W", "X", "Y", "Z", "a", "b", "c", "d", "e", "f",
          "g", "h", "i", "j", "k", "l", "m", "n", "o", "p", "q", "r", "s", "t", "u", "v",
          "w", "x", "y", "z", "0", "1", "2", "3", "4", "5", "6", "7", "8", "9", "+", "/">>)

\* The k-th (0..3) sextet of the 3-byte group a, b, c.
Sextet(a, b, c, k) ==
    CASE k = 0 -> a \div 4
      [] k = 1 -> (a % 4) * 16 + (b \div 16)
      [] k = 2 -> (b % 16) * 4 + (c \div 64)
      [] k = 3 -> c % 64

\* Engine::encode without padding: 3 bytes to 4 characters, a final group of
\* 1 or 2 bytes to 2 or 3 characters.
Base64Encode(alphabet, bytes) ==
    LET n      == Len(bytes)
        rem    == n % 3
        outLen == (n \div 3) * 4 + (IF rem = 0 THEN 0 ELSE rem + 1)
        At(i)  == IF i <= n THEN bytes[i] ELSE 0
    IN  [j \in 1..outLen |->
            LET g == (j - 1) \div 4
                k == (j - 1) % 4
            IN  alphabet[1 + Sextet(At(3 * g + 1), At(3 * g + 2), At(3 * g + 3), k)]]

\* Engine::decode without padding: every character must be of the alphabet
\* ('=' is not), a length of 1 mod 4 is invalid and the unused trailing bits
\* must be zero.
Base64Decode(alphabet, chars) ==
    LET n      == Len(chars)
        rem    == n % 4
        Val(c) == (CHOOSE i \in 1..Len(alphabet) : alphabet[i] = c) - 1
        known  == \A i \in 1..n : \E k \in 1..Len(alphabet) : alphabet[k] = chars[i]
        outLen == (n \div 4) * 3 + (IF rem = 0 THEN 0 ELSE rem - 1)
        At(i)  == IF i <= n THEN Val(chars[i]) ELSE 0
        tail   == CASE rem = 2 -> At(n) % 16
                    [] rem = 3 -> At(n) % 4
                    [] OTHER   -> 0
    IN  IF ~known \/ rem = 1 THEN [ok |-> FALSE]
        ELSE IF tail # 0 THEN [ok |-> FALSE]
        ELSE [ok |-> TRUE,
              val |-> [j \in 1..outLen |->
                  LET g == (j - 1) \div 3
                      k == (j - 1) % 3
                      s0 == At(4 * g + 1)
                      s1 == At(4 * g + 2)
                      s2 == At(4 * g + 3)
                      s3 == At(4 * g + 4)
                  IN  CASE k = 0 -> s0 * 4 + (s1 \div 16)
                        [] k = 1 -> (s1 % 16) * 16 + (s2 \div 4)
                        [] k = 2 -> (s2 % 4) * 64 + s3]]

HEX_DIGITS ==
    Str(<<"0", "1", "2", "3", "4", "5", "6", "7", "8", "9", "a", "b", "c", "d", "e", "f">>)

\* hex::encode: two lower-case hex digits per byte.
HexEncode(bytes) ==
    [j \in 1..(2 * Len(bytes)) |->
        LET b == bytes[(j + 1) \div 2]
        IN  IF j % 2 = 1 THEN HEX_DIGITS[1 + (b \div 16)] ELSE HEX_DIGITS[1 + (b % 16)]]

-----------------------------------------------------------------------------
(* Ideal digests *)

\* The block size of SHA-256 in bytes.
HMAC_BLOCK == 64

\* Hmac::new_from_slice(key): a key longer than the block is replaced by its
\* digest, every other key is padded with zero bytes to the block.  The padded
\* key is represented by the key without its trailing zero bytes.
HmacKey(key) ==
    IF Len(key) > HMAC_BLOCK THEN <<3>> \o key
    ELSE IF \A i \in 1..Len(key) : key[i] = 0 THEN <<>>
    ELSE Take(key, CHOOSE i \in 1..Len(key) :
                       key[i] # 0 /\ \A j \in (i + 1)..Len(key) : key[j] = 0)

\* Hmac<Sha256>: new_from_slice(key), update(msg), finalize().  Ideal MAC:
\* distinct (block key, msg) pairs give distinct digests.
HmacDigest(block_key, msg) == <<1, Len(block_key)>> \o block_key \o msg
HmacSha256(key, msg) == HmacDigest(HmacKey(key), msg)

\* Sha512: new(), update(msg), finalize().  Ideal hash: distinct messages give
\* distinct digests, and no digest is empty.
Sha512(msg) == <<2>> \o msg

-----------------------------------------------------------------------------
(* serde_json: the subset of JSON the tokens of this program use.          *)
(* Objects with string keys whose values are strings, integers or the      *)
(* literals true / false / null.  Nested containers, floats and \u escapes *)
(* are outside the subset and are reported as parse errors.                *)

BACKSLASH == Ord("\\")
LBRACE    == Ord("{")
RBRACE    == Ord("}")
COLON     == Ord(":")
COMMA     == Ord(",")
MINUS     == Ord("-")
ZERO      == Ord("0")

Fail == [ok |-> FALSE]

IsWs(b)    == b \in {32, 9, 10, 13}
IsDigit(b) == b >= ZERO /\ b <= ZERO + 9

RECURSIVE SkipWs(_, _)
SkipWs(s, i) == IF i <= Len(s) /\ IsWs(s[i]) THEN SkipWs(s, i + 1) ELSE i

\* A JSON string starting at the quote s[i]: its unescaped bytes and the
\* position after the closing quote.
JsonString(s, i) ==
    LET RECURSIVE Go(_, _)
        Go(j, acc) ==
            IF j > Len(s) THEN Fail
            ELSE IF s[j] = QUOTE THEN [ok |-> TRUE, kind |-> "str", val |-> acc, next |-> j + 1]
            ELSE IF s[j] = BACKSLASH THEN
                IF j + 1 <= Len(s) /\ s[j + 1] \in {QUOTE, BACKSLASH, Ord("/")}
                THEN Go(j + 2, Append(acc, s[j + 1]))
                ELSE Fail
            ELSE IF s[j] < 32 THEN Fail
            ELSE Go(j + 1, Append(acc, s[j]))
    IN  IF i <= Len(s) /\ s[i] = QUOTE THEN Go(i + 1, <<>>) ELSE Fail

\* A JSON integer starting at s[i]: optional '-', digits without a leading
\* zero, not followed by a fraction or an exponent.
JsonNumber(s, i) ==
    LET neg   == i <= Len(s) /\ s[i] = MINUS
        first == IF neg THEN i + 1 ELSE i
        RECURSIVE Go(_, _)
        Go(j, acc) ==
            IF j <= Len(s) /\ IsDigit(s[j]) THEN Go(j + 1, acc * 10 + (s[j] - ZERO))
            ELSE [val |-> acc, next |-> j]
        r == Go(first, 0)
    IN  IF first > Len(s) \/ ~IsDigit(s[first]) THEN Fail
        ELSE IF s[first] = ZERO /\ r.next > first + 1 THEN Fail
        ELSE IF r.next <= Len(s) /\ s[r.next] \in {Ord("."), Ord("e"), Ord("E")} THEN Fail
        ELSE [ok |-> TRUE, kind |-> "int", val |-> IF neg THEN -r.val ELSE r.val,
              next |-> r.next]

JsonLiteral(s, i) ==
    LET Is(word) == StartsWith(Drop(s, i - 1), word)
        true  == Str(<<"t", "r", "u", "e">>)
        false == Str(<<"f", "a", "l", "s", "e">>)
        null  == Str(<<"n", "u", "l", "l">>)
    IN  IF Is(true) THEN [ok |-> TRUE, kind |-> "lit", val |-> true, next |-> i + 4]
        ELSE IF Is(false) THEN [ok |-> TRUE, kind |-> "lit", val |-> false, next |-> i + 5]
        ELSE IF Is(null) THEN [ok |-> TRUE, kind |-> "lit", val |-> null, next |-> i + 4]
        ELSE Fail

JsonValue(s, i) ==
    IF i > Len(s) THEN Fail
    ELSE IF s[i] = QUOTE THEN JsonString(s, i)
    ELSE IF s[i] = MINUS \/ IsDigit(s[i]) THEN JsonNumber(s, i)
    ELSE JsonLiteral(s, i)

\* One member of an object, "key" : value, starting at s[i]; next is the
\* position of the ',' or '}' that follows it.
JsonMemberValue(s, key, v) ==
    IF v.ok
    THEN [ok |-> TRUE, member |-> [key |-> key, kind |-> v.kind, val |-> v.val],
          next |-> SkipWs(s, v.next)]
    ELSE Fail

JsonMemberColon(s, k, c) ==
    IF c <= Len(s) /\ s[c] = COLON
    THEN JsonMemberValue(s, k.val, JsonValue(s, SkipWs(s, c + 1)))
    ELSE Fail

JsonMemberKey(s, k) == IF k.ok THEN JsonMemberColon(s, k, SkipWs(s, k.next)) ELSE Fail

JsonMember(s, i) == JsonMemberKey(s, JsonString(s, SkipWs(s, i)))

\* The members of an object from s[i] to the closing '}'.
RECURSIVE JsonMembers(_, _, _)
JsonMembersNext(s, acc, m) ==
    IF ~m.ok \/ m.next > Len(s) THEN Fail
    ELSE IF s[m.next] = COMMA THEN JsonMembers(s, m.next + 1, Append(acc, m.member))
    ELSE IF s[m.next] = RBRACE
    THEN [ok |-> TRUE, val |-> Append(acc, m.member), next |-> m.next + 1]
    ELSE Fail

JsonMembers(s, i, acc) == JsonMembersNext(s, acc, JsonMember(s, i))

JsonObjectBody(s, open, first) ==
    IF open > Len(s) \/ s[open] # LBRACE THEN Fail
    ELSE IF first <= Len(s) /\ s[first] = RBRACE
    THEN [ok |-> TRUE, val |-> <<>>, next |-> first + 1]
    ELSE JsonMembers(s, open + 1, <<>>)

JsonObjectEnd(s, body) ==
    IF body.ok /\ SkipWs(s, body.next) > Len(s) THEN [ok |-> TRUE, val |-> body.val]
    ELSE Fail

\* A whole JSON document that is one object: the sequence of its members
\* [key, kind, val] in document order.  Trailing characters are an error.
JsonObject(s) ==
    JsonObjectEnd(s, JsonObjectBody(s, SkipWs(s, 1), SkipWs(s, SkipWs(s, 1) + 1)))

\* #[derive(Deserialize)] on a struct, given the parsed object: every named
\* field exactly once with a value of its type, unknown keys ignored.  "names"
\* are the fields' JSON names and Accepts(name, member) the type test of a
\* field; the result maps names to values.
DeserializeMembers(obj, names, Accepts(_, _)) ==
    LET Of(n) == {i \in 1..Len(obj.val) : obj.val[i].key = n}
    IN  IF ~obj.ok THEN Fail
        ELSE IF \E n \in names : Cardinality(Of(n)) # 1 THEN Fail
        ELSE IF \E n \in names : \E i \in Of(n) : ~Accepts(n, obj.val[i]) THEN Fail
        ELSE [ok |-> TRUE,
              val |-> [n \in names |-> obj.val[CHOOSE i \in Of(n) : TRUE].val]]

DeserializeStruct(s, names, Accepts(_, _)) ==
    DeserializeMembers(JsonObject(s), names, Accepts)

-----------------------------------------------------------------------------
(* src/src/user/jwt.rs *)

SigAlgo ==
    {"HS256", "HS384", "HS512", "RS256", "RS384", "RS512",
     "ES256", "ES384", "ES512", "PS256", "PS384", "PS512"}

\* SigAlgo::as_str and Display for SigAlgo: the variant's name.
SigAlgoStr(alg) ==
    LET family == CASE alg \in {"HS256", "HS384", "HS512"} -> "H"
                    [] alg \in {"RS256", "RS384", "RS512"} -> "R"
                    [] alg \in {"ES256", "ES384", "ES512"} -> "E"
                    [] alg \in {"PS256", "PS384", "PS512"} -> "P"
        bits   == CASE alg \in {"HS256", "RS256", "ES256", "PS256"} -> <<"2", "5", "6">>
                    [] alg \in {"HS384", "RS384", "ES384", "PS384"} -> <<"3", "8", "4">>
                    [] alg \in {"HS512", "RS512", "ES512", "PS512"} -> <<"5", "1", "2">>
    IN  Str(<<family, "S">> \o bits)

NoSignature == [some |-> FALSE]
Some(x)     == [some |-> TRUE, val |-> x]

\* Jwt::new
JwtNew(head, payload) == [header |-> head, payload |-> payload, signature |-> NoSignature]

\* JwtHeader::new and JwtHeader::defaults
JwtHeaderNew(alg, type) == [alg |-> alg, type |-> type]
JwtHeaderDefaults == JwtHeaderNew("HS256", Str(<<"J", "W", "T">>))

\* JwtPayload::new
JwtPayloadNew(sub, name, email, iat) ==
    [sub |-> sub, name |-> name, email |-> email, iat |-> iat]

\* impl Display for JwtHeader: {"alg":"<alg>","typ":"<type>"}
HeaderToString(h) ==
    Concat(<<Str(<<"{", "\"", "a", "l", "g", "\"", ":", "\"">>), SigAlgoStr(h.alg),
             Str(<<"\"", ",", "\"", "t", "y", "p", "\"", ":", "\"">>), h.type,
             Str(<<"\"", "}">>)>>)

\* A Display for JwtPayload that leaves the iat field out of the string.
PayloadToString_WithoutIat(p) ==
    Concat(<<Str(<<"{", "\"", "s", "u", "b", "\"", ":", "\"">>), IntToString(p.sub),
             Str(<<"\"", ",", "\"", "n", "a", "m", "e", "\"", ":", "\"">>), p.name,
             Str(<<"\"", ",", "\"", "e", "m", "a", "i", "l", "\"", ":", "\"">>), p.email,
             Str(<<"\"", "}">>)>>)

\* impl Display for JwtPayload:
\* {"sub":"<sub>","name":"<name>","email":"<email>","iat":<iat>}
PayloadToString(p) ==
    LET sub_pair   == Str(<<"\"", "s", "u", "b", "\"", ":", "\"">>) \o IntToString(p.sub)
                          \o <<QUOTE>>
        name_pair  == Str(<<"\"", "n", "a", "m", "e", "\"", ":", "\"">>) \o p.name
                          \o <<QUOTE>>
        email_pair == Str(<<"\"", "e", "m", "a", "i", "l", "\"", ":", "\"">>) \o p.email
                          \o <<QUOTE>>
        iat_pair   == Str(<<"\"", "i", "a", "t", "\"", ":">>) \o IntToString(p.iat)
    IN  Concat(<<<<LBRACE>>, sub_pair, <<COMMA>>, name_pair, <<COMMA>>, email_pair,
                 <<COMMA>>, iat_pair, <<RBRACE>>>>)

\* A finalize_hs256 whose HMAC is keyed with the empty key instead of the secret.
FinalizeHs256_Unkeyed(jwt, secret) ==
    LET partial_token == Base64Encode(B64_STANDARD, HeaderToString(jwt.header)) \o <<DOT>>
                             \o Base64Encode(B64_STANDARD, PayloadToString(jwt.payload))
    IN  partial_token \o <<DOT>> \o HexEncode(HmacSha256(<<>>, partial_token))

\* Jwt::finalize_hs256: "<header64>.<payload64>.<hex(HMAC(secret, header64.payload64))>"
FinalizeHs256(jwt, secret) ==
    LET header64      == Base64Encode(B64_STANDARD, HeaderToString(jwt.header))
        payload64     == Base64Encode(B64_STANDARD, PayloadToString(jwt.payload))
        partial_token == header64 \o <<DOT>> \o payload64
        signature     == HexEncode(HmacSha256(secret, partial_token))
    IN  partial_token \o <<DOT>> \o signature

\* A finalize that signs with HMAC-SHA-256 whatever algorithm the header names.
Finalize_AnyAlgorithm(jwt, secret) == FinalizeHs256(jwt, secret)

\* Jwt::finalize: HS256 is signed, every other algorithm gives String::new().
Finalize(jwt, secret) ==
    IF jwt.header.alg = "HS256" THEN FinalizeHs256(jwt, secret) ELSE <<>>

\* A finalize that keeps what it computed in the token's signature field.
FinalizeReceiver_Sealing(jwt, secret) ==
    [jwt EXCEPT !.signature = Some(Finalize(jwt, secret))]

\* Jwt::finalize takes &self, and Jwt has no cell or lock inside: the token
\* after the call is the token before it.
FinalizeReceiver(jwt, secret) == jwt

\* Jwt::verify takes &self as well; the signature it compares is a clone.
VerifyReceiver(jwt, secret) == jwt

\* Jwt::verify: the token's signature (or "" when absent) against the last
\* '.'-separated piece of finalize(secret); no piece at all is ParsingError.
VerifyPieces(self_sig, pieces) ==
    IF Len(pieces) = 0 THEN [kind |-> "Err", err |-> "ParsingError"]
    ELSE [kind |-> "Ok", val |-> (self_sig = pieces[Len(pieces)])]

Verify(jwt, secret) ==
    VerifyPieces(IF jwt.signature.some THEN jwt.signature.val ELSE <<>>,
                 SplitTerminator(Finalize(jwt, secret), DOT))

\* std::str::from_utf8 / String::from_utf8: is the byte string well-formed UTF-8?
RECURSIVE IsUtf8(_)
IsUtf8(b) ==
    LET Cont(i, lo, hi) == i <= Len(b) /\ b[i] >= lo /\ b[i] <= hi
        c == b[1]
    IN  IF Len(b) = 0 THEN TRUE
        ELSE IF c < 128 THEN IsUtf8(Drop(b, 1))
        ELSE IF c >= 194 /\ c <= 223 THEN Cont(2, 128, 191) /\ IsUtf8(Drop(b, 2))
        ELSE IF c >= 224 /\ c <= 239 THEN
            /\ Cont(2, IF c = 224 THEN 160 ELSE 128, IF c = 237 THEN 159 ELSE 191)
            /\ Cont(3, 128, 191)
            /\ IsUtf8(Drop(b, 3))
        ELSE IF c >= 240 /\ c <= 244 THEN
            /\ Cont(2, IF c = 240 THEN 144 ELSE 128, IF c = 244 THEN 143 ELSE 191)
            /\ Cont(3, 128, 191)
            /\ Cont(4, 128, 191)
            /\ IsUtf8(Drop(b, 4))
        ELSE FALSE

\* #[derive(Deserialize)] struct JwtHeader { alg: SigAlgo, r#type: String }
HeaderAccepts(name, member) ==
    IF name = Str(<<"a", "l", "g">>)
    THEN member.kind = "str" /\ \E a \in SigAlgo : SigAlgoStr(a) = member.val
    ELSE member.kind = "str"

FIELD_ALG  == Str(<<"a", "l", "g">>)
FIELD_TYPE == Str(<<"t", "y", "p", "e">>)

HeaderOfFields(r) ==
    IF ~r.ok THEN Fail
    ELSE [ok |-> TRUE,
          val |-> [alg  |-> CHOOSE a \in SigAlgo : SigAlgoStr(a) = r.val[FIELD_ALG],
                   type |-> r.val[FIELD_TYPE]]]

DeserializeHeader(bytes) ==
    HeaderOfFields(DeserializeStruct(bytes, {FIELD_ALG, FIELD_TYPE}, HeaderAccepts))

\* #[derive(Deserialize)] struct JwtPayload { sub: i64, name: String, email: String, iat: u64 }
\* (the numbers of the model stay far below the 64-bit limits, which are not modelled)
PayloadAccepts(name, member) ==
    CASE name = Str(<<"s", "u", "b">>) -> member.kind = "int"
      [] name = Str(<<"i", "a", "t">>) -> member.kind = "int" /\ member.val >= 0
      [] OTHER -> member.kind = "str"

FIELD_SUB   == Str(<<"s", "u", "b">>)
FIELD_NAME  == Str(<<"n", "a", "m", "e">>)
FIELD_EMAIL == Str(<<"e", "m", "a", "i", "l">>)
FIELD_IAT   == Str(<<"i", "a", "t">>)

PayloadOfFields(r) ==
    IF ~r.ok THEN Fail
    ELSE [ok |-> TRUE,
          val |-> [sub |-> r.val[FIELD_SUB], name |-> r.val[FIELD_NAME],
                   email |-> r.val[FIELD_EMAIL], iat |-> r.val[FIELD_IAT]]]

\* serde_json::from_slice::<JwtPayload>: the bytes must also be UTF-8.
DeserializePayload(bytes) ==
    IF ~IsUtf8(bytes) THEN Fail
    ELSE PayloadOfFields(DeserializeStruct(bytes, {FIELD_SUB, FIELD_NAME, FIELD_EMAIL,
                                                   FIELD_IAT}, PayloadAccepts))

\* Jwt::from_str_secret, from the last step to the first.  digest_is_utf8 says
\* whether the 32 raw bytes of the recomputed HMAC happen to be well-formed
\* UTF-8 (a fact about SHA-256 output that the ideal digest cannot decide).

\* The hash from_str_secret returns beside the token: the HMAC of
\* "{<part 0>}.{<part 1>}", its raw bytes read as a string.
TestHash(parts, secret) ==
    HmacSha256(secret, Concat(<<<<LBRACE>>, parts[1], <<RBRACE>>, <<DOT>>,
                                <<LBRACE>>, parts[2], <<RBRACE>>>>))

FromStrToken(parts, secret, header, payload) ==
    IF ~payload.ok THEN [kind |-> "Err", err |-> "SerdeError"]
    ELSE [kind |-> "Ok",
          token |-> [header |-> header.val, payload |-> payload.val,
                     signature |-> Some(parts[3])],
          test_hash |-> TestHash(parts, secret)]

FromStrPayload(parts, secret, header, payload_decoded) ==
    IF ~header.ok THEN [kind |-> "Err", err |-> "SerdeError"]
    ELSE IF ~payload_decoded.ok THEN [kind |-> "Err", err |-> "ParsingError"]
    ELSE FromStrToken(parts, secret, header, DeserializePayload(payload_decoded.val))

FromStrHeader(parts, secret, header_decoded) ==
    IF ~header_decoded.ok THEN [kind |-> "Panic"]
    ELSE IF ~IsUtf8(header_decoded.val) THEN [kind |-> "Panic"]
    ELSE FromStrPayload(parts, secret, DeserializeHeader(header_decoded.val),
                        Base64Decode(B64_STANDARD, parts[2]))

FromStrParts(parts, secret, digest_is_utf8) ==
    IF Len(parts) # 3 THEN [kind |-> "Err", err |-> "IncorrectLength"]
    ELSE IF ~digest_is_utf8 THEN [kind |-> "Err", err |-> "ParsingError"]
    ELSE FromStrHeader(parts, secret, Base64Decode(B64_STANDARD, parts[1]))

FromStrSecret(wire, secret, digest_is_utf8) ==
    FromStrParts(SplitTerminator(wire, DOT), secret, digest_is_utf8)

-----------------------------------------------------------------------------
(* src/src/user.rs *)

\* salt_password takes 15 characters from the generator.
SALT_LEN == 15

\* rand::distributions::Alphanumeric: A-Z, a-z, 0-9.
IsAlphanumeric(b) ==
    \/ b >= Ord("A") /\ b <= Ord("Z")
    \/ b >= Ord("a") /\ b <= Ord("z")
    \/ IsDigit(b)

\* A salt_password that takes one character fewer from the generator.
SaltPassword_Short(password, salt) ==
    [pass_with_salt |-> Take(salt, SALT_LEN - 1) \o password,
     salt |-> Take(salt, SALT_LEN - 1)]

\* salt_password; salt is what the generator yields, of which take(15) keeps
\* the first SALT_LEN characters.
SaltPassword(password, salt) ==
    [pass_with_salt |-> Take(salt, SALT_LEN) \o password, salt |-> Take(salt, SALT_LEN)]

\* A hash_unsalted_password whose digest is taken over the password alone.
HashUnsaltedPassword_BareDigest(password, salt) ==
    salt \o <<HASH>> \o HexEncode(Sha512(password))

\* hash_unsalted_password: salt ++ "#" ++ hex(SHA-512(salt ++ password)).
HashUnsaltedPassword(password, salt) ==
    LET salted    == SaltPassword(password, salt)
        hashed_pw == HexEncode(Sha512(salted.pass_with_salt))
    IN  salted.salt \o <<HASH>> \o hashed_pw

\* hash_salted_password: hex(SHA-512(password)).
HashSaltedPassword(password) == HexEncode(Sha512(password))

\* char::from(u8) followed by String::push: the byte is taken as the code
\* point U+0000..U+00FF and stored in UTF-8.
PushCharFromU8(b) == IF b < 128 THEN <<b>> ELSE <<192 + (b \div 64), 128 + (b % 64)>>

\* The loop of verify_pw over the bytes of hashed_pw: the characters before
\* the first '#' are pushed to salted_password and delimiter_index is the
\* index after that '#', or 0 when there is none; stored_hash is what
\* split_at(delimiter_index) leaves on the right.
VerifyPwSplit(hashed_pw) ==
    LET first  == IndexOf(hashed_pw, HASH)
        prefix == IF first = 0 THEN hashed_pw ELSE Take(hashed_pw, first - 1)
        delimiter_index == first
    IN  [salt        |-> Concat([i \in 1..Len(prefix) |-> PushCharFromU8(prefix[i])]),
         stored_hash |-> Drop(hashed_pw, delimiter_index)]

\* verify_pw
VerifyPwCompare(password, split) ==
    HashSaltedPassword(split.salt \o password) = split.stored_hash

VerifyPw(password, hashed_pw) == VerifyPwCompare(password, VerifyPwSplit(hashed_pw))

\* impl Debug for str: the text between quotes, quote and backslash escaped.
DebugStr(str) ==
    LET Esc(b) == IF b = QUOTE \/ b = BACKSLASH THEN <<BACKSLASH, b>> ELSE <<b>>
    IN  <<QUOTE>> \o Concat([i \in 1..Len(str) |-> Esc(str[i])]) \o <<QUOTE>>

\* #[derive(Debug)] struct Zeroizing<Z>(Z), of the zeroize crate.
DebugZeroizing(str) == Concat(<<Str(<<"Z", "e", "r", "o", "i", "z", "i", "n", "g", "(">>), DebugStr(str), Str(<<")">>)>>)

\* #[instrument] on verify_pw: a span named after the function whose fields
\* are the arguments, each formatted with Debug.  Of the user row the field
\* shows hashed_pw; its id, username and email are no part of these scenarios.
VerifyPwSpan(password, hashed_pw) ==
    [name |-> "verify_pw",
     fields |-> [password |-> DebugZeroizing(password), user |-> DebugStr(hashed_pw)]]

\* verify_pw, lines 116-122: the two debug! records (line breaks and
\* indentation of the second message written as single spaces).
VerifyPwEvents(password, hashed_pw) ==
    LET split == VerifyPwSplit(hashed_pw)
    IN  <<Str(<<"W", "h", "o", "l", "e", " ", "h", "a", "s", "h", " ", "i", "n", " ", "d", "b", " ", "i", "s", " ">>) \o hashed_pw,
          Concat(<<Str(<<"C", "o", "m", "p", "a", "r", "i", "n", "g", " ", "p", "a", "s", "s", "w", "o", "r", "d", "s", " ", "-", "-", " ", "I", "n", "p", "u", "t", " ", "h", "a", "s", "h", ":", " ">>), HashSaltedPassword(split.salt \o password),
                   Str(<<" ", "S", "t", "o", "r", "e", "d", " ", "h", "a", "s", "h", ":", " ">>), split.stored_hash>>)>>

\* What the subscriber receives during one verify_pw call.
VerifyPwTrace(password, hashed_pw) ==
    [span |-> VerifyPwSpan(password, hashed_pw),
     events |-> VerifyPwEvents(password, hashed_pw)]

-----------------------------------------------------------------------------
(* The jsonwebtoken crate, as src/src/main.rs uses it *)

B64_URL_SAFE ==
    Str(<<"A", "B", "C", "D", "E", "F", "G", "H", "I", "J", "K", "L", "M", "N", "O", "P",
          "Q", "R", "S", "T", "U", "V", "W", "X", "Y", "Z", "a", "b", "c", "d", "e", "f",
          "g", "h", "i", "j", "k", "l", "m", "n", "o", "p", "q", "r", "s", "t", "u", "v",
          "w", "x", "y", "z", "0", "1", "2", "3", "4", "5", "6", "7", "8", "9", "-", "_">>)

\* Index of the last occurrence of byte b in s, 0 if there is none.
LastIndexOf(s, b) ==
    IF \E i \in 1..Len(s) : s[i] = b
    THEN CHOOSE i \in 1..Len(s) : s[i] = b /\ \A j \in (i + 1)..Len(s) : s[j] # b
    ELSE 0

\* serde_json's rendering of a string value: quotes and backslashes escaped.
JsonQuote(str) ==
    LET Esc(b) == IF b = QUOTE \/ b = BACKSLASH THEN <<BACKSLASH, b>> ELSE <<b>>
    IN  <<QUOTE>> \o Concat([i \in 1..Len(str) |-> Esc(str[i])]) \o <<QUOTE>>

\* auth.rs, Claims::new
ClaimsNew(sub, name, email, iat) == [sub |-> sub, name |-> name, email |-> email, iat |-> iat]

\* #[derive(Serialize)] struct Claims { sub, name, email, iat }
ClaimsToJson(c) ==
    Concat(<<Str(<<"{", "\"", "s", "u", "b", "\"", ":">>), IntToString(c.sub),
             Str(<<",", "\"", "n", "a", "m", "e", "\"", ":">>), JsonQuote(c.name),
             Str(<<",", "\"", "e", "m", "a", "i", "l", "\"", ":">>), JsonQuote(c.email),
             Str(<<",", "\"", "i", "a", "t", "\"", ":">>), IntToString(c.iat),
             <<RBRACE>>>>)

\* Header::new(alg) serialized: {"typ":"JWT","alg":"<alg>"}
JwtLibHeaderToJson(alg) ==
    Concat(<<Str(<<"{", "\"", "t", "y", "p", "\"", ":", "\"", "J", "W", "T", "\"", ",",
                   "\"", "a", "l", "g", "\"", ":">>), JsonQuote(SigAlgoStr(alg)), <<RBRACE>>>>)

\* jsonwebtoken::encode(&header, &claims, &EncodingKey::from_secret(secret))
JwtLibEncode(alg, claims, secret) ==
    LET message == Base64Encode(B64_URL_SAFE, JwtLibHeaderToJson(alg)) \o <<DOT>>
                       \o Base64Encode(B64_URL_SAFE, ClaimsToJson(claims))
    IN  message \o <<DOT>> \o Base64Encode(B64_URL_SAFE, HmacSha256(secret, message))

\* Validation::default(): algorithms = [HS256], "exp" required and validated
\* with a leeway of 60 seconds.
VALIDATION_LEEWAY == 60
ValidationAlgorithms == {"HS256"}

\* jsonwebtoken::decode::<Claims>(token, &DecodingKey::from_secret(secret), &validation),
\* from the last step to the first.
FIELD_EXP == Str(<<"e", "x", "p">>)

\* validate(): "exp" must be there, a number, and not more than the leeway past.
JwtLibValidate(claims, object, clock) ==
    LET exps == {i \in 1..Len(object.val) : object.val[i].key = FIELD_EXP}
    IN  IF ~claims.ok THEN Fail
        ELSE IF \A i \in exps : object.val[i].kind # "int" THEN Fail
        ELSE IF \E i \in exps : object.val[i].val + VALIDATION_LEEWAY < clock THEN Fail
        ELSE [ok |-> TRUE, claims |-> claims.val]

JwtLibClaims(claims_decoded, clock) ==
    IF ~claims_decoded.ok THEN Fail
    ELSE JwtLibValidate(DeserializePayload(claims_decoded.val),
                        JsonObject(claims_decoded.val), clock)

\* verify_signature(): the header names an algorithm of the validation and
\* the signature is the HMAC of "<header64>.<claims64>".
JwtLibVerifySignature(header, message, signature, claims64, secret, clock) ==
    IF ~header.ok THEN Fail
    ELSE IF (CHOOSE a \in SigAlgo : SigAlgoStr(a) = header.val[FIELD_ALG])
                \notin ValidationAlgorithms THEN Fail
    ELSE IF signature # Base64Encode(B64_URL_SAFE, HmacSha256(secret, message)) THEN Fail
    ELSE JwtLibClaims(Base64Decode(B64_URL_SAFE, claims64), clock)

JwtLibHeader(header_decoded, message, signature, claims64, secret, clock) ==
    IF ~header_decoded.ok THEN Fail
    ELSE JwtLibVerifySignature(DeserializeStruct(header_decoded.val, {FIELD_ALG},
                                                 HeaderAccepts),
                               message, signature, claims64, secret, clock)

JwtLibMessage(message, mid, signature, secret, clock) ==
    IF mid = 0 THEN Fail
    ELSE JwtLibHeader(Base64Decode(B64_URL_SAFE, Take(message, mid - 1)), message,
                      signature, Drop(message, mid), secret, clock)

JwtLibSplit(wire, last, secret, clock) ==
    IF last = 0 THEN Fail
    ELSE JwtLibMessage(Take(wire, last - 1), LastIndexOf(Take(wire, last - 1), DOT),
                       Drop(wire, last), secret, clock)

JwtLibDecode(wire, secret, clock) == JwtLibSplit(wire, LastIndexOf(wire, DOT), secret, clock)

-----------------------------------------------------------------------------
(* src/src/main.rs *)

AUTH_COOKIE_NAME   == Str(<<"B", "e", "a", "r", "e", "r">>)
COOKIE_HEADER_NAME == Str(<<"C", "o", "o", "k", "i", "e">>)
SESSION_TIME       == 7200

INTERNAL_SERVER_ERROR == 500
UNAUTHORIZED          == 401
TEMPORARY_REDIRECT    == 307

\* StatusCode::into_response(): the status and no headers.
StatusResponse(status) == [status |-> status, headers |-> {}]

\* url_db.rs, UserRow::new
UserRowNew(id, username, hashed_pw, email) ==
    [id |-> id, username |-> username, hashed_pw |-> hashed_pw, email |-> email]

\* user::retrieve_user_by_name: the possible results of looking a name up,
\* Err when no row has it.
RetrieveUserByName(username, table) ==
    LET rows == {u \in table : u.username = username}
    IN  IF rows = {} THEN {[ok |-> FALSE]} ELSE {[ok |-> TRUE, val |-> u] : u \in rows}

\* UserRow::from_id: the row with the id, Err when there is none.
UserRowFromId(id, table) ==
    LET rows == {u \in table : u.id = id}
    IN  IF rows = {} THEN [ok |-> FALSE] ELSE [ok |-> TRUE, val |-> CHOOSE u \in rows : TRUE]

\* serde_html_form::from_bytes::<LoginPayload>: '&'-separated name=value
\* pairs; username and password must each occur once, and since both fields
\* borrow from the body, a value that needs '+' or '%' decoding is an error.
ParseLoginPayload(body) ==
    LET pieces == SelectSeq(Split(body, Ord("&")), LAMBDA x : x # <<>>)
        Name(x)  == IF IndexOf(x, Ord("=")) = 0 THEN x ELSE Take(x, IndexOf(x, Ord("=")) - 1)
        Value(x) == IF IndexOf(x, Ord("=")) = 0 THEN <<>> ELSE Drop(x, IndexOf(x, Ord("=")))
        Of(n)    == {i \in 1..Len(pieces) : Name(pieces[i]) = n}
        Encoded(x) == \E i \in 1..Len(x) : x[i] \in {Ord("+"), Ord("%")}
        username == Str(<<"u", "s", "e", "r", "n", "a", "m", "e">>)
        password == Str(<<"p", "a", "s", "s", "w", "o", "r", "d">>)
    IN  IF \E n \in {username, password} : Cardinality(Of(n)) # 1 THEN Fail
        ELSE IF \E n \in {username, password} : \E i \in Of(n) : Encoded(Value(pieces[i]))
             THEN Fail
        ELSE [ok |-> TRUE,
              val |-> [username |-> Value(pieces[CHOOSE i \in Of(username) : TRUE]),
                       password |-> Value(pieces[CHOOSE i \in Of(password) : TRUE])]]

\* expiration_time
ExpirationTime(clock) == clock + SESSION_TIME

\* The Set-Cookie value of attempt_login: "__Host-jwt=<token>; Secure"
SetCookieValue(jwt) ==
    Concat(<<Str(<<"_", "_", "H", "o", "s", "t", "-", "j", "w", "t", "=">>), jwt,
             Str(<<";", " ", "S", "e", "c", "u", "r", "e">>)>>)

LOGGED_IN == Str(<<"/", "l", "o", "g", "g", "e", "d", "i", "n", ".", "h", "t", "m", "l">>)

\* An attempt_login that issues the token without looking at verify_pw.
LoginVerified_Unchecked(password, user, jwt_secret, clock) ==
    [path |-> "issued",
     resp |-> [status  |-> TEMPORARY_REDIRECT,
               headers |-> {<<"set-cookie",
                              SetCookieValue(JwtLibEncode("HS256",
                                  ClaimsNew(user.id, user.username, user.email,
                                            ExpirationTime(clock)),
                                  jwt_secret))>>,
                            <<"location", LOGGED_IN>>}]]

\* attempt_login after the lookup: the password check and the token.
LoginVerified(password, user, jwt_secret, clock) ==
    IF VerifyPw(password, user.hashed_pw)
    THEN [path |-> "issued",
          resp |-> [status  |-> TEMPORARY_REDIRECT,
                    headers |-> {<<"set-cookie",
                                   SetCookieValue(JwtLibEncode("HS256",
                                       ClaimsNew(user.id, user.username, user.email,
                                                 ExpirationTime(clock)),
                                       jwt_secret))>>,
                                 <<"location", LOGGED_IN>>}]]
    ELSE [path |-> "mismatch", resp |-> StatusResponse(UNAUTHORIZED)]

LoginParsed(login_data, lookup, jwt_secret, clock) ==
    IF ~login_data.ok
    THEN [path |-> "bad_form", resp |-> StatusResponse(INTERNAL_SERVER_ERROR)]
    ELSE IF ~lookup.ok
    THEN [path |-> "unknown_user", resp |-> StatusResponse(INTERNAL_SERVER_ERROR)]
    ELSE LoginVerified(login_data.val.password, lookup.val, jwt_secret, clock)

\* attempt_login, lookup being the result of retrieve_user_by_name for the
\* submitted name.  Gives the response and the path taken through the handler.
AttemptLogin(body, lookup, jwt_secret, clock) ==
    LoginParsed(ParseLoginPayload(body), lookup, jwt_secret, clock)

\* HeaderName::from_static accepts only lower-case letters, digits and the
\* token symbols, and panics on every other name.
IsStaticHeaderName(name) ==
    /\ Len(name) > 0
    /\ \A i \in 1..Len(name) :
          \/ name[i] >= Ord("a") /\ name[i] <= Ord("z")
          \/ IsDigit(name[i])
          \/ name[i] \in {Ord("!"), Ord("#"), Ord("$"), Ord("%"), Ord("&"), Ord("'"), Ord("*"),
                          Ord("+"), Ord("-"), Ord("."), Ord("^"), Ord("_"), 96, Ord("|"),
                          Ord("~")}

\* str::trim
RECURSIVE TrimEnd(_)
TrimEnd(s) == IF Len(s) > 0 /\ IsWs(s[Len(s)]) THEN TrimEnd(Take(s, Len(s) - 1)) ELSE s
Trim(s) == TrimEnd(Drop(s, SkipWs(s, 1) - 1))

\* The loop of authenticate_request over the ';'-separated pairs: the map
\* from cookie names to values (a later pair replaces an earlier one of the
\* same name), or malformed when a pair has no '='.
CookieMap(header_str) ==
    LET cookie_vec == SplitTerminator(header_str, Ord(";"))
        pairs == [i \in 1..Len(cookie_vec) |-> Trim(cookie_vec[i])]
        Eq(x) == IndexOf(x, Ord("="))
        names == {Take(pairs[i], Eq(pairs[i]) - 1) : i \in 1..Len(pairs)}
        Latest(n) == CHOOSE i \in 1..Len(pairs) :
                        /\ Take(pairs[i], Eq(pairs[i]) - 1) = n
                        /\ \A j \in (i + 1)..Len(pairs) : Take(pairs[j], Eq(pairs[j]) - 1) # n
    IN  IF \E i \in 1..Len(pairs) : Eq(pairs[i]) = 0 THEN Fail
        ELSE [ok |-> TRUE,
              val |-> [n \in names |-> Drop(pairs[Latest(n)], Eq(pairs[Latest(n)]))]]

\* HeaderValue::to_str().unwrap_or(""): a value with a byte that is not
\* visible ASCII (or tab) reads as the empty string.
HeaderToStr(value) ==
    IF \A i \in 1..Len(value) : value[i] = 9 \/ (value[i] >= 32 /\ value[i] <= 126)
    THEN value ELSE <<>>

\* authenticate_request, from the last step to the first.  Outcomes reached
\* after the cookie was found also tell the token that was handed to
\* jsonwebtoken::decode.
AuthUser(user) ==
    IF ~user.ok THEN [kind |-> "Panic"] ELSE [kind |-> "Authenticated", user |-> user.val]

AuthToken(jwt, table) ==
    IF ~jwt.ok THEN [kind |-> "NotAuthenticated"]
    ELSE AuthUser(UserRowFromId(jwt.claims.sub, table))

AuthCookies(cookie_map, table, jwt_secret, clock) ==
    IF ~cookie_map.ok THEN [kind |-> "Error", err |-> "InvalidCookieHeader"]
    ELSE IF AUTH_COOKIE_NAME \notin DOMAIN cookie_map.val
    THEN [kind |-> "Error", err |-> "InvalidCookieHeader"]
    ELSE AuthToken(JwtLibDecode(cookie_map.val[AUTH_COOKIE_NAME], jwt_secret, clock), table)
             @@ [token |-> cookie_map.val[AUTH_COOKIE_NAME]]

\* An authenticate_request that asks for the header under its lower-case name
\* and validates the token's times against the epoch instead of the clock.
AuthenticateRequest_Unvalidated(cookie, table, jwt_secret, clock) ==
    IF ~cookie.some THEN [kind |-> "Error", err |-> "NoCookieHeader"]
    ELSE AuthCookies(CookieMap(HeaderToStr(cookie.val)), table, jwt_secret, 0)

\* authenticate_request; cookie is the request's Cookie header, if any.
AuthenticateRequest(cookie, table, jwt_secret, clock) ==
    IF ~IsStaticHeaderName(COOKIE_HEADER_NAME) THEN [kind |-> "Panic"]
    ELSE IF ~cookie.some THEN [kind |-> "Error", err |-> "NoCookieHeader"]
    ELSE AuthCookies(CookieMap(HeaderToStr(cookie.val)), table, jwt_secret, clock)

-----------------------------------------------------------------------------
(* Inputs of the model *)

MaxTampers == 2
MaxUsers   == 2
MaxNow     == 1

JWT      == Str(<<"J", "W", "T">>)
SECRET   == Str(<<"H", "a", "p", "p", "y", " ", "T", "e", "s", "t">>)
SECRET_2 == Str(<<"S", "a", "d">>)
\* SECRET followed by a NUL character.
SECRET_NUL == SECRET \o <<0>>
Secrets  == {SECRET, SECRET_2, SECRET_NUL}

Headers == {JwtHeaderDefaults, JwtHeaderNew("HS384", JWT), JwtHeaderNew("RS256", JWT)}

Subs   == {143, -7}
Names  == {Str(<<"J", "o", "h", "n">>), Str(<<"A", "l">>)}
Emails == {Str(<<"t", "@", "e", ".", "c">>), Str(<<"x">>)}
Iats   == {182, 1700}

PayloadFields == {"sub", "name", "email", "iat"}
FieldValues(field) ==
    CASE field = "sub"   -> Subs
      [] field = "name"  -> Names
      [] field = "email" -> Emails
      [] field = "iat"   -> Iats

\* The payloads tokens are constructed with: the one of tests::test_verify
\* and one that differs from it in every field.
Payloads ==
    {JwtPayloadNew(143, Str(<<"J", "o", "h", "n">>), Str(<<"t", "@", "e", ".", "c">>), 1700),
     JwtPayloadNew(-7, Str(<<"A", "l">>), Str(<<"x">>), 182)}

\* The signature a caller takes from a finalized string, as tests::test_verify
\* does: the last piece of split_terminator('.').
LastPiece(str) == LET pieces == SplitTerminator(str, DOT) IN pieces[Len(pieces)]

\* Signatures a sender may attach to a token it did not seal with the secret.
ForgedSignatures(jwt) ==
    {<<>>,
     LastPiece(FinalizeHs256(jwt, SECRET)),
     LastPiece(FinalizeHs256([jwt EXCEPT !.header = JwtHeaderDefaults], SECRET))}

\* Wire strings whose header carries the key "type" that JwtHeader
\* deserializes, with the payload's numbers unquoted.
CraftedWire(alg, payload, sig) ==
    LET header_json  == Concat(<<Str(<<"{", "\"", "a", "l", "g", "\"", ":">>),
                                 JsonQuote(SigAlgoStr(alg)),
                                 Str(<<",", "\"", "t", "y", "p", "e", "\"", ":">>),
                                 JsonQuote(JWT), <<RBRACE>>>>)
        payload_json == ClaimsToJson(payload)
    IN  Concat(<<Base64Encode(B64_STANDARD, header_json), <<DOT>>,
                 Base64Encode(B64_STANDARD, payload_json), <<DOT>>, sig>>)

\* Wires that are not three non-empty segments: a trailing '.', an empty third
\* segment, an empty first segment, and one separator too many.
MisshapenWires ==
    LET wire == CraftedWire("HS256", JwtPayloadNew(143, Str(<<"J", "o", "h", "n">>),
                                                   Str(<<"x">>), 182), Str(<<"0", "0">>))
        head == Take(wire, Len(wire) - 2)
    IN  {wire \o <<DOT>>, head \o <<DOT>>, <<DOT>> \o wire,
         Str(<<"a", ".", "b", ".", "c", ".", "d">>)}

CraftedWires ==
    {CraftedWire(alg, JwtPayloadNew(143, Str(<<"J", "o", "h", "n">>), Str(<<"x">>), 182), sig) :
        alg \in {"HS256", "HS384"}, sig \in {Str(<<"0", "0">>), <<>>}}
        \cup {Str(<<"a", ".", "b">>), Str(<<"!", ".", "e", "y", "J", "9", ".", "0">>)}
        \cup MisshapenWires

\* The users table of the token scenarios: the subject of some payloads exists.
TokenUsers ==
    {UserRowNew(143, Str(<<"J", "o", "h", "n">>),
                HashUnsaltedPassword(Str(<<"p", "w">>), [i \in 1..SALT_LEN |-> Ord("a")]),
                Str(<<"x">>))}

-----------------------------------------------------------------------------
(* Token scenarios: construct, seal, tamper, finalize, parse, verify *)

JwtInit ==
    /\ urls = {}
    /\ urls_id_seq = 0
    /\ created = {}
    /\ lastRetrieved = None
    /\ encoded = None
    /\ procs = <<>>
    /\ token \in {JwtNew(h, p) : h \in Headers, p \in Payloads}
    /\ sealed = None
    /\ tampers = 0
    /\ finalized = None
    /\ verified = None
    /\ parsed = None
    /\ lastAuth = None
    /\ stored = None
    /\ pwResult = None
    /\ users = TokenUsers
    /\ users_id_seq = 143
    /\ now = 0
    /\ lastLogin = None
    /\ failures = {}

\* token.finalize(secret)
JwtFinalize(secret) ==
    /\ finalized' = [secret |-> secret, out |-> Finalize(token, secret)]
    /\ token' = FinalizeReceiver(token, secret)
    /\ verified' = None
    /\ parsed' = None
    /\ lastAuth' = None
    /\ UNCHANGED <<sealed, tampers, pwVars, serverVars, urlVars, encVars, procVars>>

\* tests::test_verify: token.signature = last piece of token.finalize(secret);
\* the expect() aborts when finalize returned no piece.
JwtSeal(secret) ==
    /\ sealed = None
    /\ token.signature = NoSignature
    /\ Len(SplitTerminator(Finalize(token, secret), DOT)) > 0
    /\ token' = [token EXCEPT !.signature = Some(LastPiece(Finalize(token, secret)))]
    /\ sealed' = [secret |-> secret, payload |-> token.payload]
    /\ tampers' = 0
    /\ finalized' = None
    /\ verified' = None
    /\ parsed' = None
    /\ lastAuth' = None
    /\ UNCHANGED <<pwVars, serverVars, urlVars, encVars, procVars>>

\* A token built with a signature that is not its own seal.
JwtForge(sig) ==
    /\ sealed = None
    /\ token.signature = NoSignature
    /\ token' = [token EXCEPT !.signature = Some(sig)]
    /\ finalized' = None
    /\ verified' = None
    /\ parsed' = None
    /\ lastAuth' = None
    /\ UNCHANGED <<sealed, tampers, pwVars, serverVars, urlVars, encVars, procVars>>

\* tests::test_verify: token.payload.<field> = value, the signature kept.
JwtTamper(field, value) ==
    /\ sealed # None
    /\ tampers < MaxTampers
    /\ value # token.payload[field]
    /\ token' = [token EXCEPT !.payload[field] = value]
    /\ tampers' = tampers + 1
    /\ finalized' = None
    /\ verified' = None
    /\ parsed' = None
    /\ lastAuth' = None
    /\ UNCHANGED <<sealed, pwVars, serverVars, urlVars, encVars, procVars>>

\* token.verify(secret)
JwtVerify(secret) ==
    /\ verified' = [secret |-> secret, res |-> Verify(token, secret)]
    /\ token' = VerifyReceiver(token, secret)
    /\ finalized' = None
    /\ parsed' = None
    /\ lastAuth' = None
    /\ UNCHANGED <<sealed, tampers, pwVars, serverVars, urlVars, encVars, procVars>>

\* Jwt::from_str_secret(finalized string, secret)
JwtParseFinalized(secret, digest_is_utf8) ==
    /\ finalized # None
    /\ parsed' = [from |-> "finalize", wire |-> finalized.out, secret |-> secret,
                  res |-> FromStrSecret(finalized.out, secret, digest_is_utf8)]
    /\ lastAuth' = None
    /\ UNCHANGED <<token, sealed, tampers, finalized, verified, pwVars, serverVars, urlVars, encVars, procVars>>

\* Jwt::from_str_secret(wire string of a sender, secret)
JwtParseWire(wire, secret, digest_is_utf8) ==
    /\ sealed = None
    /\ token.signature = NoSignature
    /\ parsed' = [from |-> "wire", wire |-> wire, secret |-> secret,
                  res |-> FromStrSecret(wire, secret, digest_is_utf8)]
    /\ finalized' = None
    /\ verified' = None
    /\ lastAuth' = None
    /\ UNCHANGED <<token, sealed, tampers, pwVars, serverVars, urlVars, encVars, procVars>>

\* The caller goes on with the token that from_str_secret returned.
JwtReceive ==
    /\ parsed # None
    /\ parsed.res.kind = "Ok"
    /\ token' = parsed.res.token
    /\ finalized' = None
    /\ verified' = None
    /\ parsed' = None
    /\ lastAuth' = None
    /\ UNCHANGED <<sealed, tampers, pwVars, serverVars, urlVars, encVars, procVars>>

\* A request whose Cookie header carries the finalized string under the
\* configured cookie name reaches authenticate_request.
JwtRequest(jwt_secret) ==
    /\ finalized # None
    /\ lastAuth' =
          LET cookie == Some(AUTH_COOKIE_NAME \o <<Ord("=")>> \o finalized.out)
          IN  [cookie |-> cookie,
               res |-> AuthenticateRequest(cookie, users, jwt_secret, now)]
    /\ parsed' = None
    /\ UNCHANGED <<token, sealed, tampers, finalized, verified, pwVars, serverVars, urlVars, encVars, procVars>>

JwtNext ==
    \/ \E secret \in Secrets : JwtFinalize(secret)
    \/ \E secret \in Secrets : JwtSeal(secret)
    \/ \E sig \in ForgedSignatures(token) : JwtForge(sig)
    \/ \E field \in PayloadFields : \E value \in FieldValues(field) : JwtTamper(field, value)
    \/ \E secret \in Secrets : JwtVerify(secret)
    \/ \E secret \in Secrets : \E u \in BOOLEAN : JwtParseFinalized(secret, u)
    \/ \E wire \in CraftedWires : \E secret \in Secrets : \E u \in BOOLEAN :
          JwtParseWire(wire, secret, u)
    \/ JwtReceive
    \/ \E secret \in Secrets : JwtRequest(secret)

JwtSpec == JwtInit /\ [][JwtNext]_vars

-----------------------------------------------------------------------------
(* Password scenarios: derive or load a stored hash, then verify *)

Passwords == {Str(<<"t", "e", "s", "t">>), Str(<<"a", "#">>), <<>>}

\* Salts the generator can draw: 15 alphanumeric characters.
SaltChars == {Ord("a"), Ord("Z"), Ord("7")}
DrawnSalts ==
    {[i \in 1..SALT_LEN |-> IF i <= k THEN a ELSE b] :
        a \in SaltChars, b \in SaltChars, k \in {0, SALT_LEN \div 2}}

\* Salts of rows that were not written by hash_unsalted_password, such as the
\* "12" of tests::verify_matching_pw: '#'-free strings of other lengths,
\* among them the two UTF-8 bytes of U+00E9.
LoadedSalts == {Str(<<"1", "2">>), <<>>, <<195, 169>>, [i \in 1..(SALT_LEN + 1) |-> Ord("q")]}

\* What follows the first '#' in such a row: the digest of salt ++ password,
\* or a string with a further '#'.
LoadedRests(salt) ==
    {HexEncode(Sha512(salt \o p)) : p \in Passwords} \cup {Str(<<"a", "b", "#", "c", "d">>)}

\* Rows without any '#'.
CorruptHashes ==
    {<<>>, Str(<<"1", "2">>), HexEncode(Sha512(Str(<<"1", "2", "t", "e", "s", "t">>)))}

PwInit ==
    /\ urls = {}
    /\ urls_id_seq = 0
    /\ created = {}
    /\ lastRetrieved = None
    /\ encoded = None
    /\ procs = <<>>
    /\ stored = None
    /\ pwResult = None
    /\ token = None
    /\ sealed = None
    /\ tampers = 0
    /\ finalized = None
    /\ verified = None
    /\ parsed = None
    /\ lastAuth = None
    /\ users = {}
    /\ users_id_seq = 0
    /\ now = 0
    /\ lastLogin = None
    /\ failures = {}

\* create_user_for_db: hashed_pw = hash_unsalted_password(plain_pw)
PwDerive(plain_pw, salt) ==
    /\ stored' = [kind |-> "derived", plain |-> plain_pw, salt |-> salt,
                  hashed_pw |-> HashUnsaltedPassword(plain_pw, salt)]
    /\ pwResult' = None
    /\ UNCHANGED <<jwtVars, lastAuth, serverVars, urlVars, encVars, procVars>>

\* UserRow::user_with_pass(salt ++ "#" ++ rest), as tests::verify_matching_pw
PwLoad(salt, rest) ==
    /\ stored' = [kind |-> "loaded", salt |-> salt, rest |-> rest,
                  hashed_pw |-> salt \o <<HASH>> \o rest]
    /\ pwResult' = None
    /\ UNCHANGED <<jwtVars, lastAuth, serverVars, urlVars, encVars, procVars>>

\* UserRow::user_with_pass of a string without '#'
PwLoadCorrupt(hashed_pw) ==
    /\ stored' = [kind |-> "corrupt", hashed_pw |-> hashed_pw]
    /\ pwResult' = None
    /\ UNCHANGED <<jwtVars, lastAuth, serverVars, urlVars, encVars, procVars>>

\* verify_pw(password, &user)
PwVerify(password) ==
    /\ stored # None
    /\ pwResult' = [password |-> password, split |-> VerifyPwSplit(stored.hashed_pw),
                    trace |-> VerifyPwTrace(password, stored.hashed_pw),
                    res |-> VerifyPw(password, stored.hashed_pw)]
    /\ UNCHANGED <<stored, jwtVars, lastAuth, serverVars, urlVars, encVars, procVars>>

PwNext ==
    \/ \E plain_pw \in Passwords : \E salt \in DrawnSalts : PwDerive(plain_pw, salt)
    \/ \E salt \in LoadedSalts : \E rest \in LoadedRests(salt) : PwLoad(salt, rest)
    \/ \E hashed_pw \in CorruptHashes : PwLoadCorrupt(hashed_pw)
    \/ \E password \in Passwords : PwVerify(password)

PwSpec == PwInit /\ [][PwNext]_vars

-----------------------------------------------------------------------------
(* The server: accounts, the clock, logins and authenticated requests *)

\* Preferences::jwt_secret(), fixed when the process starts.
JwtSecret == SECRET

PW   == Str(<<"p", "w">>)
PW_2 == Str(<<"x">>)

\* What new_user is called with: the users table has no unique constraint
\* in this code, so the same name may be registered twice.
Registrations ==
    {[username |-> Str(<<"a", "l">>), plain_pw |-> PW,   email |-> Str(<<"a", "@", "x">>)],
     [username |-> Str(<<"a", "l">>), plain_pw |-> PW_2, email |-> Str(<<"c", "@", "x">>)]}

\* The body of a login form, as the browser sends it.
LoginBody(username, password) ==
    Concat(<<Str(<<"u", "s", "e", "r", "n", "a", "m", "e", "=">>), username,
             Str(<<"&", "p", "a", "s", "s", "w", "o", "r", "d", "=">>), password>>)

\* Bodies POSTed to the login route: forms with a name and a password, and a
\* body without the password field.
LoginForms ==
    {[body |-> LoginBody(Str(<<"a", "l">>), p), username |-> Str(<<"a", "l">>),
      password |-> p] : p \in {PW, PW_2, <<>>}}
        \cup {[body |-> LoginBody(Str(<<"b", "o">>), PW), username |-> Str(<<"b", "o">>),
               password |-> PW]}
        \cup {[body |-> Str(<<"u", "s", "e", "r", "n", "a", "m", "e", "=", "a", "l">>)]}

Init ==
    /\ urls = {}
    /\ urls_id_seq = 0
    /\ created = {}
    /\ lastRetrieved = None
    /\ encoded = None
    /\ procs = <<>>
    /\ users = {}
    /\ users_id_seq = 0
    /\ now = 0
    /\ lastLogin = None
    /\ failures = {}
    /\ lastAuth = None
    /\ token = None
    /\ sealed = None
    /\ tampers = 0
    /\ finalized = None
    /\ verified = None
    /\ parsed = None
    /\ stored = None
    /\ pwResult = None

\* user::new_user: create_user_for_db, then add_user_to_db, whose INSERT
\* draws the id from users_id_seq inside one transaction.
NewUser(reg, salt) ==
    /\ users_id_seq < MaxUsers
    /\ users_id_seq' = users_id_seq + 1
    /\ users' = users \cup {UserRowNew(users_id_seq + 1, reg.username,
                                       HashUnsaltedPassword(reg.plain_pw, salt), reg.email)}
    /\ lastLogin' = None
    /\ lastAuth' = None
    /\ UNCHANGED <<now, failures, jwtVars, pwVars, urlVars, encVars, procVars>>

\* user::delete_user_from_db
DeleteUser(id) ==
    /\ users' = {u \in users : u.id # id}
    /\ lastLogin' = None
    /\ lastAuth' = None
    /\ UNCHANGED <<users_id_seq, now, failures, jwtVars, pwVars, urlVars, encVars, procVars>>

\* SystemTime::now() moves on.
Tick ==
    /\ now < MaxNow
    /\ now' = now + 1
    /\ lastLogin' = None
    /\ lastAuth' = None
    /\ UNCHANGED <<users, users_id_seq, failures, jwtVars, pwVars, urlVars, encVars, procVars>>

\* POST to the login route: attempt_login.  lastLogin holds the request and
\* its response until the next operation; failures collects the responses of
\* the attempts that failed for an unknown name or a wrong password.
LoginResponded(form, lookup, out) ==
    /\ lastLogin' = [form |-> form, table |-> users, lookup |-> lookup, clock |-> now,
                     out |-> out]
    /\ failures' = IF out.path \in {"unknown_user", "mismatch"}
                   THEN failures \cup {[cause |-> out.path, resp |-> out.resp]}
                   ELSE failures

AttemptLoginRequest(form, lookup) ==
    /\ \E out \in {AttemptLogin(form.body, lookup, JwtSecret, now)} :
          LoginResponded(form, lookup, out)
    /\ lastAuth' = None
    /\ UNCHANGED <<users, users_id_seq, now, jwtVars, pwVars, urlVars, encVars, procVars>>

\* The name a form asks for: what retrieve_user_by_name is called with.
FormUsername(form, login_data) == IF login_data.ok THEN login_data.val.username ELSE <<>>

\* The token of the last login's Set-Cookie header, if it has one.
CookieToken(value) == SubSeq(value, Len(SetCookieValue(<<>>)) - 7 + 1, Len(value) - 8)

IssuedTokens ==
    IF lastLogin = None THEN {}
    ELSE {CookieToken(h[2]) : h \in {g \in lastLogin.out.resp.headers : g[1] = "set-cookie"}}

\* The Cookie header a browser sends back for a Set-Cookie value: the
\* name=value pair in front of the first ';'.
SentBack(value) == Take(value, IndexOf(value, Ord(";")) - 1)

SentBackCookies ==
    IF lastLogin = None THEN {}
    ELSE {Some(SentBack(h[2])) : h \in {g \in lastLogin.out.resp.headers : g[1] = "set-cookie"}}

\* Cookie headers of requests: none, one without the session cookie, the
\* token of the last login under the configured name, and the cookie of the
\* last login as the browser sends it back.
RequestCookies ==
    {NoSignature, Some(Str(<<"a", "=", "1">>))}
        \cup {Some(Concat(<<AUTH_COOKIE_NAME, <<Ord("=")>>, t>>)) : t \in IssuedTokens}
        \cup SentBackCookies

\* A request to a protected route: authenticate_request
AuthRequest(cookie) ==
    /\ lastAuth' = [cookie |-> cookie,
                    res |-> AuthenticateRequest(cookie, users, JwtSecret, now)]
    /\ UNCHANGED <<users, users_id_seq, now, lastLogin, failures, jwtVars, pwVars, urlVars, encVars, procVars>>

Next ==
    \/ \E reg \in Registrations : NewUser(reg, [i \in 1..SALT_LEN |-> Ord("a")])
    \/ \E id \in {u.id : u \in users} : DeleteUser(id)
    \/ Tick
    \/ \E form \in LoginForms :
          \E lookup \in RetrieveUserByName(FormUsername(form, ParseLoginPayload(form.body)),
                                           users) :
              AttemptLoginRequest(form, lookup)
    \/ \E cookie \in RequestCookies : AuthRequest(cookie)

Spec == Init /\ [][Next]_vars

-----------------------------------------------------------------------------
(* Sessions: one account, a login, then requests while time passes and the *)
(* account may be deleted                                                   *)

MaxLifetimes == 1

SessionUser ==
    UserRowNew(1, Str(<<"a", "l">>), HashUnsaltedPassword(PW, [i \in 1..SALT_LEN |-> Ord("a")]),
               Str(<<"a", "@", "x">>))

SessionForms == {f \in LoginForms : "password" \in DOMAIN f /\ f.username = SessionUser.username
                                      /\ f.password \in {PW, PW_2}}

\* A token signed with the server's secret that carries, beside the fields of
\* Claims, the "exp" claim that Validation::default() asks for.
TokenWithExp(claims, exp, secret) ==
    LET json    == Take(ClaimsToJson(claims), Len(ClaimsToJson(claims)) - 1)
                       \o Str(<<",", "\"", "e", "x", "p", "\"", ":">>) \o IntToString(exp)
                       \o <<RBRACE>>
        message == Base64Encode(B64_URL_SAFE, JwtLibHeaderToJson("HS256")) \o <<DOT>>
                       \o Base64Encode(B64_URL_SAFE, json)
    IN  message \o <<DOT>> \o Base64Encode(B64_URL_SAFE, HmacSha256(secret, message))

\* Such a token for the session's account, running out after one lifetime.
VERIFYING_TOKEN ==
    TokenWithExp(ClaimsNew(SessionUser.id, SessionUser.username, SessionUser.email,
                           SESSION_TIME), SESSION_TIME, JwtSecret)

\* Cookie headers with what the spec says of each: the token to hand to
\* verification (if any) and whether the header is well-formed.
CookieCases ==
    {[header |-> Str(<<"B", "e", "a", "r", "e", "r", "=", "a", "b", "c", ".", "d", "e", "f", ".",
                       "g", "h", "i", ";", " ", "o", "t", "h", "e", "r", "=", "1">>),
      wellformed |-> TRUE, named |-> TRUE,
      token |-> Str(<<"a", "b", "c", ".", "d", "e", "f", ".", "g", "h", "i">>)],
     [header |-> Str(<<"x", "=", "1", ";", " ", " ", "B", "e", "a", "r", "e", "r", "=", "a", "=",
                       "b", "=", " ">>),
      wellformed |-> TRUE, named |-> TRUE, token |-> Str(<<"a", "=", "b", "=">>)],
     [header |-> Concat(<<AUTH_COOKIE_NAME, <<Ord("=")>>, VERIFYING_TOKEN>>),
      wellformed |-> TRUE, named |-> TRUE, token |-> VERIFYING_TOKEN],
     [header |-> Str(<<"o", "t", "h", "e", "r", "=", "1">>),
      wellformed |-> TRUE, named |-> FALSE],
     [header |-> Str(<<"o", "t", "h", "e", "r", "=", "1", ";", " ", "B", "e", "a", "r", "e", "r">>),
      wellformed |-> FALSE, named |-> FALSE]}

SessionInit ==
    /\ users = {SessionUser}
    /\ users_id_seq = 1
    /\ now = 0
    /\ lastLogin = None
    /\ failures = {}
    /\ lastAuth = None
    /\ token = None
    /\ sealed = None
    /\ tampers = 0
    /\ finalized = None
    /\ verified = None
    /\ parsed = None
    /\ stored = None
    /\ pwResult = None
    /\ urls = {}
    /\ urls_id_seq = 0
    /\ created = {}
    /\ lastRetrieved = None
    /\ encoded = None
    /\ procs = <<>>

\* Half a session lifetime passes; the browser keeps its cookie.
Elapse ==
    /\ now < MaxLifetimes * SESSION_TIME
    /\ now' = now + SESSION_TIME \div 2
    /\ lastAuth' = None
    /\ UNCHANGED <<users, users_id_seq, lastLogin, failures, jwtVars, pwVars, urlVars, encVars, procVars>>

\* user::delete_user_from_db while the browser keeps its cookie.
RemoveAccount(id) ==
    /\ users' = {u \in users : u.id # id}
    /\ lastAuth' = None
    /\ UNCHANGED <<users_id_seq, now, lastLogin, failures, jwtVars, pwVars, urlVars, encVars, procVars>>

SessionNext ==
    \/ \E form \in SessionForms :
          \E lookup \in RetrieveUserByName(FormUsername(form, ParseLoginPayload(form.body)),
                                           users) :
              AttemptLoginRequest(form, lookup)
    \/ Elapse
    \/ \E id \in {u.id : u \in users} : RemoveAccount(id)
    \/ \E cookie \in RequestCookies \cup {Some(c.header) : c \in CookieCases} :
          AuthRequest(cookie)

SessionSpec == SessionInit /\ [][SessionNext]_vars



OkTrue  == [kind |-> "Ok", val |-> TRUE]
OkFalse == [kind |-> "Ok", val |-> FALSE]

\* C1: round trip.  For every payload with the default HS256 header and every
\* secret S, from_str_secret(finalize(S), S) succeeds, returns a token whose
\* payload is the one finalized, and returns a computed signature equal to
\* the third segment of the finalized string.
C1_RoundTrip ==
    (/\ parsed # None
     /\ parsed.from = "finalize"
     /\ parsed.secret = finalized.secret
     /\ token.header = JwtHeaderDefaults)
        => /\ parsed.res.kind = "Ok"
           /\ parsed.res.token.payload = token.payload
           /\ parsed.res.test_hash = LastPiece(finalized.out)

\* C2: tamper sensitivity.  A token sealed with the last segment of its own
\* finalize(S) verifies under S; once exactly one payload field has been
\* overwritten with a different value, verify(S) is Ok(false).
C2_TamperSensitivity ==
    (sealed # None /\ verified # None /\ verified.secret = sealed.secret)
        => /\ tampers = 0 => verified.res = OkTrue
           /\ tampers = 1 => verified.res = OkFalse

C2_Witness ==
    /\ sealed # None
    /\ tampers = 1
    /\ token.payload # sealed.payload
    /\ verified # None
    /\ verified.secret = sealed.secret
    /\ verified.res = OkFalse

\* C3: secret sensitivity.  A token sealed with finalize(S1) is never
\* reported valid by verify(S2) for S2 different from S1.
C3_SecretSensitivity ==
    (sealed # None /\ verified # None /\ verified.secret # sealed.secret)
        => verified.res # OkTrue

\* C3, amended: a token sealed with finalize(S1) is never reported valid by
\* verify(S2) when S2 differs from S1 in more than trailing NUL characters
\* (both at most one HMAC block long).
C3_SecretSensitivityUpToPadding ==
    (sealed # None /\ verified # None /\ HmacKey(verified.secret) # HmacKey(sealed.secret))
        => verified.res # OkTrue

C3_Witness ==
    /\ sealed # None
    /\ tampers = 0
    /\ verified # None
    /\ HmacKey(verified.secret) # HmacKey(sealed.secret)
    /\ verified.res = OkFalse

\* C4: algorithm pinning.  A token whose header names an algorithm other than
\* HS256 is never reported valid, whatever signature it carries: verify never
\* gives Ok(true) and authenticate_request never gives Authenticated.
C4_AlgorithmPinning ==
    token.header.alg # "HS256"
        => /\ verified # None => verified.res # OkTrue
           /\ lastAuth # None => lastAuth.res.kind # "Authenticated"

C4_Witness ==
    /\ token.header.alg # "HS256"
    /\ token.signature.some
    /\ token.signature.val # <<>>
    /\ verified # None
    /\ verified.res.kind = "Err"

\* C5: finalize on a token whose algorithm is not HS256 gives an explicit
\* "unsupported algorithm" result, never an empty string.
C5_ExplicitUnsupported ==
    (finalized # None /\ token.header.alg # "HS256") => finalized.out # <<>>

-----------------------------------------------------------------------------
(* Claims about password hashing, checked under PwSpec *)

\* C6: for a stored hash derived from plaintext q with a salt the generator
\* can draw, verify_pw(p) is true exactly when p = q.
C6_VerifyIffSamePlaintext ==
    (stored # None /\ stored.kind = "derived" /\ pwResult # None)
        => (pwResult.res <=> pwResult.password = stored.plain)

C6_Witness ==
    /\ stored # None
    /\ stored.kind = "derived"
    /\ pwResult # None
    /\ pwResult.password = stored.plain
    /\ pwResult.res

\* C7: verify_pw splits the stored hash at its first '#'.  For a stored hash
\* salt + '#' + hex(SHA-512(salt + p)) with any '#'-free salt of any length,
\* verify_pw(p) is true, and everything after the first '#', later '#'
\* included, is taken as the expected digest.
C7_SplitAtFirstHash ==
    (stored # None /\ stored.kind = "loaded" /\ pwResult # None)
        => /\ pwResult.split.stored_hash = stored.rest
           /\ stored.rest = HexEncode(Sha512(stored.salt \o pwResult.password))
                 => pwResult.res

\* C8: a stored hash without '#' is reported as a data-corruption error that
\* differs from the result of a plain password mismatch.
MismatchResult ==
    VerifyPw(<<>>, HashUnsaltedPassword(Str(<<"t", "e", "s", "t">>),
                                        [i \in 1..SALT_LEN |-> Ord("a")]))

C8_CorruptionDistinct ==
    (stored # None /\ stored.kind = "corrupt" /\ pwResult # None)
        => pwResult.res # MismatchResult

-----------------------------------------------------------------------------
(* Claims about login, checked under Spec *)

\* C9: login failure is undifferentiated.  A failed attempt with an unknown
\* user name and a failed attempt with a wrong password for an existing user
\* get the same response, status code and headers alike.
C9_UndifferentiatedFailure ==
    \A f \in failures : \A g \in failures : f.resp = g.resp

\* The claims a token carries: its second segment, decoded.
TokenClaims(segments) ==
    DeserializePayload(Base64Decode(B64_URL_SAFE, segments[2]).val)

ClaimsAreOf(claims, user) ==
    /\ claims.ok
    /\ claims.val.sub = user.id
    /\ claims.val.name = user.username
    /\ claims.val.email = user.email

\* C10: a cookie is issued only after the password is verified.  A response
\* of attempt_login carries Set-Cookie only if the form parsed, the lookup by
\* the submitted name succeeded with a row the users table held, verify_pw is
\* true for that row and the submitted password, and the token's sub, name
\* and email are the id, username and email of that row.
C10_CookieOnlyAfterVerification ==
    (lastLogin # None /\ IssuedTokens # {})
        => /\ ParseLoginPayload(lastLogin.form.body).ok
           /\ lastLogin.lookup.ok
           /\ lastLogin.lookup.val \in lastLogin.table
           /\ lastLogin.lookup.val.username = lastLogin.form.username
           /\ VerifyPw(lastLogin.form.password, lastLogin.lookup.val.hashed_pw)
           /\ \A t \in IssuedTokens :
                 ClaimsAreOf(TokenClaims(Split(t, DOT)), lastLogin.lookup.val)

C10_Witness ==
    /\ lastLogin # None
    /\ IssuedTokens # {}
    /\ lastLogin.lookup.ok
    /\ \E u \in lastLogin.table :
          u.username = lastLogin.form.username /\ u # lastLogin.lookup.val

-----------------------------------------------------------------------------
(* Claims about sessions, checked under SessionSpec *)

\* C11: session continuity.  After a successful login, a request that sends
\* back the cookie of that login's Set-Cookie header, before the session
\* lifetime has elapsed and while the account exists, is answered
\* Authenticated with the account's user record.
C11_SessionContinuity ==
    (/\ lastAuth # None
     /\ lastLogin # None
     /\ lastAuth.cookie \in SentBackCookies
     /\ now < lastLogin.clock + SESSION_TIME
     /\ lastLogin.lookup.val \in users)
        => /\ lastAuth.res.kind = "Authenticated"
           /\ lastAuth.res.user = lastLogin.lookup.val

\* The time field of a token's claims.
TokenTime(jwt) == TokenClaims(Split(jwt, DOT)).val.iat

BearerOf(jwt) == Some(Concat(<<AUTH_COOKIE_NAME, <<Ord("=")>>, jwt>>))

C13_DeletedAccountRejected ==
    (/\ lastAuth # None
     /\ lastAuth.cookie = BearerOf(VERIFYING_TOKEN)
     /\ now < TokenTime(VERIFYING_TOKEN)
     /\ SessionUser \notin users)
        => lastAuth.res.kind \in {"NotAuthenticated", "Error"}

\* C14: cookie extraction.  For a header of ';'-separated name=value pairs the
\* token handed to verification is the value of the pair with the configured
\* name, each pair trimmed and split at its first '=' only.
C14_CookieExtraction ==
    \A c \in CookieCases :
        (lastAuth # None /\ lastAuth.cookie = Some(c.header) /\ c.named)
            => /\ "token" \in DOMAIN lastAuth.res
               /\ lastAuth.res.token = c.token

\* C15: a well-formed cookie header without a pair of the configured name
\* gets the no-cookie outcome, which differs from the outcome of a malformed
\* header (a pair without '=').
C15_NoCookieDistinct ==
    \A c \in CookieCases :
        (lastAuth # None /\ lastAuth.cookie = Some(c.header) /\ c.wellformed /\ ~c.named)
            => /\ lastAuth.res = [kind |-> "Error", err |-> "NoCookieHeader"]
               /\ \A m \in CookieCases :
                     ~m.wellformed
                        => lastAuth.res # AuthenticateRequest(Some(m.header), users,
                                                              JwtSecret, now)

-----------------------------------------------------------------------------
(* Claims about token parsing, checked under JwtSpec *)

\* The wire, split at every '.', is exactly three segments, none of them empty.
ThreeNonEmptySegments(wire) ==
    LET segments == Split(wire, DOT)
    IN  Len(segments) = 3 /\ \A i \in 1..3 : segments[i] # <<>>

\* C16: from_str_secret rejects every wire that, split on '.', is not exactly
\* three non-empty segments: too few or too many separators, an empty
\* segment, a trailing '.'.
C16_ThreeSegmentsOnly ==
    (parsed # None /\ parsed.from = "wire" /\ ~ThreeNonEmptySegments(parsed.wire))
        => parsed.res.kind # "Ok"

HeaderDecodes(segment) ==
    LET decoded == Base64Decode(B64_STANDARD, segment)
    IN  decoded.ok /\ IsUtf8(decoded.val) /\ DeserializeHeader(decoded.val).ok

PayloadDecodes(segment) ==
    LET decoded == Base64Decode(B64_STANDARD, segment)
    IN  decoded.ok /\ DeserializePayload(decoded.val).ok

\* C17: for every three-segment wire whose header or payload segment does not
\* decode (bad base64, bad UTF-8, bad JSON), from_str_secret returns an Err;
\* it does not panic.
C17_UndecodableIsErr ==
    (/\ parsed # None
     /\ parsed.from = "wire"
     /\ ThreeNonEmptySegments(parsed.wire)
     /\ LET segments == Split(parsed.wire, DOT)
        IN  ~(HeaderDecodes(segments[1]) /\ PayloadDecodes(segments[2])))
        => parsed.res.kind = "Err"

-----------------------------------------------------------------------------
(* Encoding scenarios: two payloads are written with Display *)

EncNames ==
    {Str(<<"a">>),
     Str(<<"a", "\"", ",", "\"", "e", "m", "a", "i", "l", "\"", ":", "\"", "b">>)}

EncEmails ==
    {Str(<<"c">>), Str(<<"x", ":", "y">>),
     Str(<<"b", "\"", ",", "\"", "e", "m", "a", "i", "l", "\"", ":", "\"", "c">>)}

EncPayloads ==
    {JwtPayloadNew(sub, name, email, iat) :
        sub \in {1, -12}, name \in EncNames, email \in EncEmails, iat \in {2, 23}}

\* The two payloads are drawn; nothing is written yet.
EncInit ==
    /\ encoded \in {[first |-> first, second |-> second, written |-> FALSE] :
                        first \in EncPayloads, second \in EncPayloads}
    /\ procs = <<>>
    /\ urls = {}
    /\ urls_id_seq = 0
    /\ created = {}
    /\ lastRetrieved = None
    /\ stored = None
    /\ pwResult = None
    /\ token = None
    /\ sealed = None
    /\ tampers = 0
    /\ finalized = None
    /\ verified = None
    /\ parsed = None
    /\ lastAuth = None
    /\ users = {}
    /\ users_id_seq = 0
    /\ now = 0
    /\ lastLogin = None
    /\ failures = {}

\* to_string() of two payloads.
EncodePair ==
    /\ ~encoded.written
    /\ encoded' = [first |-> encoded.first, second |-> encoded.second,
                   written |-> TRUE,
                   first_str |-> PayloadToString(encoded.first),
                   second_str |-> PayloadToString(encoded.second)]
    /\ UNCHANGED <<jwtVars, pwVars, serverVars, lastAuth, urlVars, procVars>>

EncNext == EncodePair

EncSpec == EncInit /\ [][EncNext]_vars

\* C18: the canonical encoding is injective.  Two payloads with the same field
\* values are written as the same string, and two payloads that differ in sub,
\* name, email or iat are written as different strings, also when a name or an
\* email contains a quote, a comma or a colon.
C18_EncodingInjective ==
    (encoded # None /\ encoded.written)
        => ((encoded.first = encoded.second) <=> (encoded.first_str = encoded.second_str))

-----------------------------------------------------------------------------
(* Claims about the stored hash format, checked under PwSpec *)

IsHexDigit(b) == \E i \in 1..Len(HEX_DIGITS) : HEX_DIGITS[i] = b

\* C19: every stored hash made at registration is salt + '#' + hex digest,
\* where the salt is exactly 15 alphanumeric characters; the first '#' of the
\* stored hash is at index 15 (counted from 0).
C19_StoredHashFormat ==
    (stored # None /\ stored.kind = "derived")
        => LET hashed_pw == stored.hashed_pw
               digest    == Drop(hashed_pw, SALT_LEN + 1)
           IN  /\ Len(hashed_pw) > SALT_LEN + 1
               /\ \A i \in 1..SALT_LEN : IsAlphanumeric(hashed_pw[i])
               /\ IndexOf(hashed_pw, HASH) - 1 = SALT_LEN
               /\ \A i \in 1..Len(digest) : IsHexDigit(digest[i])
               /\ digest = HexEncode(Sha512(Take(hashed_pw, SALT_LEN) \o stored.plain))

\* A registration whose password itself contains '#'.
C19_Witness ==
    /\ stored # None
    /\ stored.kind = "derived"
    /\ IndexOf(stored.plain, HASH) > 0
    /\ IndexOf(stored.hashed_pw, HASH) - 1 = SALT_LEN

-----------------------------------------------------------------------------
(* src/src/url_db.rs *)

\* Preferences.url_len, as create_default_config sets it.
URL_LEN == 6

\* UrlRow { id, shorturl, longurl, created_by, clicks }
UrlRowNew(id, shorturl, longurl, created_by, clicks) ==
    [id |-> id, shorturl |-> shorturl, longurl |-> longurl, created_by |-> created_by,
     clicks |-> clicks]

\* gen_url_longword: the base64 text of the long url.
GenUrlLongword(long_url) == Base64Encode(B64_STANDARD, long_url)

\* slice::windows(size): every run of size consecutive bytes, in order.
Windows(bytes, size) ==
    [i \in 1..(Len(bytes) - size + 1) |-> SubSeq(bytes, i, i + size - 1)]

\* retrieve_url: SELECT longurl FROM urls WHERE shorturl = $1 with fetch_one.
\* No row is an Err; of several rows the database returns any one.
RetrieveUrl(url, table) ==
    LET rows == {r \in table : r.shorturl = url}
    IN  IF rows = {} THEN {[ok |-> FALSE]} ELSE {[ok |-> TRUE, val |-> r.longurl] : r \in rows}

\* retrieve_url_obj: SELECT * FROM urls WHERE shorturl = $1 with fetch_one.
RetrieveUrlObj(url, table) ==
    LET rows == {r \in table : r.shorturl = url}
    IN  IF rows = {} THEN {[ok |-> FALSE]} ELSE {[ok |-> TRUE, val |-> r] : r \in rows}

\* create_url, the loop over the windows from window i on: the short urls the
\* loop can end with.  A window whose lookup is an Err ends the loop with
\* nothing chosen, a window whose row has an empty long url is chosen, a
\* window whose row has a long url is passed over.
RECURSIVE WindowScan(_, _, _)
WindowScan(keywords, i, table) ==
    IF i > Len(keywords) THEN {<<>>}
    ELSE UNION {IF ~response.ok THEN {<<>>}
                ELSE IF response.val = <<>> THEN {keywords[i]}
                ELSE WindowScan(keywords, i + 1, table) :
                    response \in RetrieveUrl(keywords[i], table)}

\* create_url, the loop over random strings ends on short_url: its lookup is
\* an Err or an empty long url.
RandomAccepted(short_url, table) ==
    \E req_result \in RetrieveUrl(short_url, table) :
        ~req_result.ok \/ req_result.val = <<>>

\* create_url, lines 96-129: the short urls it can settle on when the random
\* loop ends on sampled.
ChosenShortUrls(long_url, table, sampled) ==
    LET scanned == WindowScan(Windows(GenUrlLongword(long_url), URL_LEN), 1, table)
    IN  (scanned \ {<<>>})
            \cup (IF <<>> \in scanned /\ RandomAccepted(sampled, table) THEN {sampled} ELSE {})

\* url_db_create: INSERT, then the id of retrieve_url_obj(shorturl).  The
\* table definition is not part of the sources: with a unique index on
\* shorturl the INSERT of a short url already present fails, without one the
\* row is added next to the other.
UrlDbCreate(new_row, table, next_id, unique_shorturl) ==
    IF unique_shorturl /\ \E r \in table : r.shorturl = new_row.shorturl
    THEN {[ok |-> FALSE, table |-> table]}
    ELSE LET inserted == table \cup {[new_row EXCEPT !.id = next_id]}
         IN  {[ok |-> TRUE, val |-> found.val.id, table |-> inserted] :
                 found \in RetrieveUrlObj(new_row.shorturl, inserted)}

\* create_url: the result and the table after it, for each outcome.
CreateUrlWith(long_url, user_id, table, next_id, short_url, unique_shorturl) ==
    LET new_row == UrlRowNew(-1, short_url, long_url, user_id, 0)
    IN  {[res |-> IF new_id.ok THEN [ok |-> TRUE, val |-> [new_row EXCEPT !.id = new_id.val]]
                  ELSE [ok |-> FALSE],
          table |-> new_id.table] :
            new_id \in UrlDbCreate(new_row, table, next_id, unique_shorturl)}

-----------------------------------------------------------------------------
(* URL store scenarios: short urls are created and looked up *)

MaxUrls == 2

EXAMPLE_URL == Str(<<"a", ".", "i", "o">>)

LongUrls == {<<>>, EXAMPLE_URL}

UserIds == {NoSignature, Some(1)}

\* Strings the random generator can yield: six alphanumeric characters, among
\* them the first window of EXAMPLE_URL's base64 text.
RandomCodes == {Take(GenUrlLongword(EXAMPLE_URL), URL_LEN), Str(<<"Z", "z", "0", "9", "a", "A">>)}

UrlInit ==
    /\ urls = {}
    /\ urls_id_seq = 0
    /\ created = {}
    /\ lastRetrieved = None
    /\ encoded = None
    /\ procs = <<>>
    /\ stored = None
    /\ pwResult = None
    /\ token = None
    /\ sealed = None
    /\ tampers = 0
    /\ finalized = None
    /\ verified = None
    /\ parsed = None
    /\ lastAuth = None
    /\ users = {}
    /\ users_id_seq = 0
    /\ now = 0
    /\ lastLogin = None
    /\ failures = {}

\* create_url(long_url, user_id, pool, URL_LEN)
CreateUrl(long_url, user_id, sampled, unique_shorturl) ==
    /\ urls_id_seq < MaxUrls
    /\ \E short_url \in ChosenShortUrls(long_url, urls, sampled) :
          \E out \in CreateUrlWith(long_url, user_id, urls, urls_id_seq + 1, short_url,
                                   unique_shorturl) :
              /\ urls' = out.table
              /\ created' = created \cup {[long |-> long_url, user |-> user_id,
                                           before |-> urls, res |-> out.res]}
    /\ urls_id_seq' = urls_id_seq + 1
    /\ lastRetrieved' = None
    /\ UNCHANGED <<jwtVars, pwVars, serverVars, lastAuth, encVars, procVars>>

\* retrieve_url(url, pool)
RetrieveUrlRequest(url) ==
    /\ \E res \in RetrieveUrl(url, urls) : lastRetrieved' = [url |-> url, res |-> res]
    /\ UNCHANGED <<urls, urls_id_seq, created, jwtVars, pwVars, serverVars, lastAuth, encVars, procVars>>

UrlNext ==
    \/ \E long_url \in LongUrls : \E user_id \in UserIds : \E sampled \in RandomCodes :
          \E unique_shorturl \in BOOLEAN :
              CreateUrl(long_url, user_id, sampled, unique_shorturl)
    \/ \E url \in RandomCodes : RetrieveUrlRequest(url)

UrlSpec == UrlInit /\ [][UrlNext]_vars

\* C20: create_url(long, user) returns a row with longurl = long,
\* created_by = user and clicks = 0, and every later retrieve_url of the row's
\* short url returns long, whatever rows the store held before.
C20_CreateThenRetrieve ==
    /\ \A c \in created :
          /\ c.res.ok
          /\ c.res.val.longurl = c.long
          /\ c.res.val.created_by = c.user
          /\ c.res.val.clicks = 0
    /\ lastRetrieved # None
          => \A c \in created :
                (c.res.ok /\ c.res.val.shorturl = lastRetrieved.url)
                    => lastRetrieved.res = [ok |-> TRUE, val |-> c.long]

-----------------------------------------------------------------------------
(* src/src/user.rs: registration *)

\* retrieve_user_by_id: SELECT * FROM users WHERE id=$1 LIMIT 1 with fetch_one.
RetrieveUserById(id, table) ==
    LET rows == {u \in table : u.id = id}
    IN  IF rows = {} THEN {[ok |-> FALSE]} ELSE {[ok |-> TRUE, val |-> u] : u \in rows}

\* A currval that reads the sequence's last value, whichever session drew it.
Currval_LastValue(session_value, sequence) == sequence

\* add_user_to_db: SELECT currval('users_id_seq') on the transaction's
\* connection.  currval is the value nextval last returned in this session.
Currval(session_value, sequence) == session_value

\* create_user_for_db
CreateUserForDb(username, plain_pw, email, salt) ==
    UserRowNew(-1, username, HashUnsaltedPassword(plain_pw, salt), email)

\* new_user, lines 20-22: the row with the id add_user_to_db returned.
UpdateId(user, new_id) == [user EXCEPT !.id = new_id]

-----------------------------------------------------------------------------
(* Registration scenarios: new_user calls run concurrently *)

MaxCallers == 2

Callers == 1..MaxCallers

IdleCalls == [p \in Callers |-> [pc |-> "idle"]]

RegInit ==
    /\ users = {}
    /\ users_id_seq = 0
    /\ procs = IdleCalls
    /\ now = 0
    /\ lastLogin = None
    /\ failures = {}
    /\ lastAuth = None
    /\ token = None
    /\ sealed = None
    /\ tampers = 0
    /\ finalized = None
    /\ verified = None
    /\ parsed = None
    /\ stored = None
    /\ pwResult = None
    /\ urls = {}
    /\ urls_id_seq = 0
    /\ created = {}
    /\ lastRetrieved = None
    /\ encoded = None

RegFrame == UNCHANGED <<now, lastLogin, failures, lastAuth, jwtVars, pwVars, urlVars, encVars>>

\* new_user, line 17, and add_user_to_db, line 37: the row is built and a
\* transaction begins on a connection of the pool.
RegBegin(p, reg) ==
    /\ procs[p].pc = "idle"
    /\ procs' = [procs EXCEPT ![p] =
                    [pc |-> "insert",
                     new_user |-> CreateUserForDb(reg.username, reg.plain_pw, reg.email,
                                                  [i \in 1..SALT_LEN |-> Ord("a")])]]
    /\ UNCHANGED <<users, users_id_seq>>
    /\ RegFrame

\* add_user_to_db, lines 39-44: the INSERT draws the row's id with nextval;
\* the row stays invisible to other connections until the commit.
RegInsert(p) ==
    /\ procs[p].pc = "insert"
    /\ users_id_seq' = users_id_seq + 1
    /\ procs' = [procs EXCEPT ![p] =
                    [pc |-> "currval", new_user |-> procs[p].new_user,
                     session_value |-> users_id_seq + 1,
                     inserted |-> UpdateId(procs[p].new_user, users_id_seq + 1)]]
    /\ UNCHANGED users
    /\ RegFrame

\* add_user_to_db, lines 46-48
RegCurrval(p) ==
    /\ procs[p].pc = "currval"
    /\ procs' = [procs EXCEPT ![p] =
                    [pc |-> "commit", new_user |-> procs[p].new_user,
                     inserted |-> procs[p].inserted,
                     last_value |-> users_id_seq,
                     id |-> Currval(procs[p].session_value, users_id_seq)]]
    /\ UNCHANGED <<users, users_id_seq>>
    /\ RegFrame

\* add_user_to_db, lines 50-52, and new_user, lines 20-22
RegCommit(p) ==
    /\ procs[p].pc = "commit"
    /\ users' = users \cup {procs[p].inserted}
    /\ procs' = [procs EXCEPT ![p] =
                    [pc |-> "done", inserted |-> procs[p].inserted,
                     last_value |-> procs[p].last_value,
                     res |-> [ok |-> TRUE, val |-> UpdateId(procs[p].new_user, procs[p].id)]]]
    /\ UNCHANGED users_id_seq
    /\ RegFrame

RegNext ==
    \/ \E p \in Callers : \E reg \in Registrations : RegBegin(p, reg)
    \/ \E p \in Callers : RegInsert(p)
    \/ \E p \in Callers : RegCurrval(p)
    \/ \E p \in Callers : RegCommit(p)

RegSpec == RegInit /\ [][RegNext]_vars

\* C21: new_user returns a row whose id is the id the store gave to the row
\* this call inserted, so retrieve_user_by_id(returned id) yields exactly the
\* returned row, also when other registrations run at the same time.
C21_ReturnedIdIsOwn ==
    \A p \in DOMAIN procs :
        procs[p].pc = "done"
            => /\ procs[p].res.ok
               /\ procs[p].res.val.id = procs[p].inserted.id
               /\ RetrieveUserById(procs[p].res.val.id, users) = {procs[p].res}

\* A call has returned during whose INSERT-to-SELECT interval another call
\* drew an id from the sequence.
C21_Witness ==
    \E p \in DOMAIN procs :
        /\ procs[p].pc = "done"
        /\ procs[p].last_value # procs[p].inserted.id

-----------------------------------------------------------------------------
(* Claims about the frame of the token operations, checked under JwtSpec *)

-----------------------------------------------------------------------------
(* Claims about the recomputed signature, checked under JwtSpec *)

\* finalize_hs256, lines 121-127: the signature it appends to
\* "<header64>.<payload64>".
Hs256Signature(header64, payload64, secret) ==
    HexEncode(HmacSha256(secret, header64 \o <<DOT>> \o payload64))

\* C23: the signature from_str_secret recomputes for a wire string is taken
\* over the same signing input, "<header-b64>.<payload-b64>", and encoded the
\* same way, in hex, as the one finalize_hs256 appends: for every header
\* segment, payload segment and secret the two are equal.
C23_RecomputedAsFinalize ==
    (parsed # None /\ parsed.res.kind = "Ok")
        => LET parts == SplitTerminator(parsed.wire, DOT)
           IN  parsed.res.test_hash = Hs256Signature(parts[1], parts[2], parsed.secret)

-----------------------------------------------------------------------------
(* Claims about the choice of the short url, checked under UrlSpec *)

\* The windows of the long url's base64 text that no row of the table has as
\* its short url, by position.
UnusedWindows(long_url, table) ==
    LET keywords == Windows(GenUrlLongword(long_url), URL_LEN)
    IN  {i \in DOMAIN keywords : \A r \in table : r.shorturl # keywords[i]}

\* C24: create_url takes as short url the first url_len-wide window of the
\* base64 text of the long url that is not yet a short url of the store; it
\* takes a random string only when every window is in use.
C24_FirstUnusedWindow ==
    \A c \in created :
        (c.res.ok /\ UnusedWindows(c.long, c.before) # {})
            => LET first == CHOOSE i \in UnusedWindows(c.long, c.before) :
                                \A j \in UnusedWindows(c.long, c.before) : i <= j
               IN  c.res.val.shorturl = Windows(GenUrlLongword(c.long), URL_LEN)[first]

-----------------------------------------------------------------------------
(* URL store scenarios: create_url calls run concurrently *)

RaceInit ==
    /\ urls = {}
    /\ urls_id_seq = 0
    /\ procs = IdleCalls
    /\ created = {}
    /\ lastRetrieved = None
    /\ users = {}
    /\ users_id_seq = 0
    /\ now = 0
    /\ lastLogin = None
    /\ failures = {}
    /\ lastAuth = None
    /\ token = None
    /\ sealed = None
    /\ tampers = 0
    /\ finalized = None
    /\ verified = None
    /\ parsed = None
    /\ stored = None
    /\ pwResult = None
    /\ encoded = None

RaceFrame ==
    UNCHANGED <<created, lastRetrieved, jwtVars, pwVars, serverVars, lastAuth, encVars>>

\* create_url, lines 96-137: the lookups settle the short url and the row is
\* built.  The lookups are taken as one reading of the table.
RaceChoose(p, long_url, user_id, sampled) ==
    /\ procs[p].pc = "idle"
    /\ \E short_url \in ChosenShortUrls(long_url, urls, sampled) :
          procs' = [procs EXCEPT ![p] =
                       [pc |-> "insert",
                        new_row |-> UrlRowNew(-1, short_url, long_url, user_id, 0)]]
    /\ UNCHANGED <<urls, urls_id_seq>>
    /\ RaceFrame

\* url_db_create, lines 198-203: the INSERT, a statement of its own on the
\* pool.  With a unique index on shorturl it fails when the short url is
\* present, and create_url returns the Err.
RaceInsert(p, unique_shorturl) ==
    /\ procs[p].pc = "insert"
    /\ urls_id_seq' = urls_id_seq + 1
    /\ IF unique_shorturl /\ \E r \in urls : r.shorturl = procs[p].new_row.shorturl
       THEN /\ procs' = [procs EXCEPT ![p] = [pc |-> "done", res |-> [ok |-> FALSE]]]
            /\ UNCHANGED urls
       ELSE /\ urls' = urls \cup {[procs[p].new_row EXCEPT !.id = urls_id_seq + 1]}
            /\ procs' = [procs EXCEPT ![p] =
                            [pc |-> "fetch", new_row |-> procs[p].new_row,
                             inserted_id |-> urls_id_seq + 1]]
    /\ RaceFrame

\* url_db_create, lines 205-206, and create_url, lines 139-141: the id is
\* that of the row retrieve_url_obj finds under the short url.
RaceFetchId(p) ==
    /\ procs[p].pc = "fetch"
    /\ \E found \in RetrieveUrlObj(procs[p].new_row.shorturl, urls) :
          procs' = [procs EXCEPT ![p] =
                       [pc |-> "done", inserted_id |-> procs[p].inserted_id,
                        res |-> IF found.ok
                                THEN [ok |-> TRUE,
                                      val |-> [procs[p].new_row EXCEPT !.id = found.val.id]]
                                ELSE [ok |-> FALSE]]]
    /\ UNCHANGED <<urls, urls_id_seq>>
    /\ RaceFrame

RaceNext ==
    \/ \E p \in Callers : \E long_url \in LongUrls : \E user_id \in UserIds :
          \E sampled \in RandomCodes : RaceChoose(p, long_url, user_id, sampled)
    \/ \E p \in Callers : \E unique_shorturl \in BOOLEAN : RaceInsert(p, unique_shorturl)
    \/ \E p \in Callers : RaceFetchId(p)

RaceSpec == RaceInit /\ [][RaceNext]_vars

\* C25: short urls are unique.  After any interleaving of concurrent
\* create_url calls no two stored rows have the same short url, and the id
\* each call returns is the id of the row that call inserted.
C25_ShortUrlsUnique ==
    /\ \A r1 \in urls : \A r2 \in urls : r1.shorturl = r2.shorturl => r1 = r2
    /\ \A p \in DOMAIN procs :
          (procs[p].pc = "done" /\ procs[p].res.ok)
              => procs[p].res.val.id = procs[p].inserted_id

-----------------------------------------------------------------------------
(* Claims about the trace of password verification, checked under PwSpec *)

\* sub occurs in str as a run of consecutive bytes.
Contains(str, sub) ==
    \E i \in 0..(Len(str) - Len(sub)) : SubSeq(str, i + 1, i + Len(sub)) = sub

\* C26: verify_pw never writes the plaintext password to the trace log: no
\* log record and no span field emitted during the call contains the
\* submitted password.
C26_PasswordNotTraced ==
    (pwResult # None /\ pwResult.password # <<>>)
        => /\ \A f \in DOMAIN pwResult.trace.span.fields :
                 ~Contains(pwResult.trace.span.fields[f], pwResult.password)
           /\ \A i \in DOMAIN pwResult.trace.events :
                 ~Contains(pwResult.trace.events[i], pwResult.password)

-----------------------------------------------------------------------------
(* Redirect scenarios: consume_short_url requests run concurrently *)

MOVED_PERMANENTLY == 301
NOT_FOUND         == 404

\* Requests the callers send in all.
MaxRequests == 3

HTTP_PREFIX == Str(<<"h", "t", "t", "p">>)

\* A long url stored with its scheme.
SCHEME_URL == Str(<<"h", "t", "t", "p", "s", ":", "/", "/", "b", ".", "i", "o">>)

\* The rows of the store when the requests arrive: two short urls made by
\* create_url, neither followed yet.
ClickStore ==
    {UrlRowNew(1, Take(GenUrlLongword(EXAMPLE_URL), URL_LEN), EXAMPLE_URL, NoSignature, 0),
     UrlRowNew(2, Str(<<"Z", "z", "0", "9", "a", "A">>), SCHEME_URL, Some(1), 0)}

\* Paths the requests ask for: the two stored short urls and one that is not
\* stored.
RequestedUrls == {r.shorturl : r \in ClickStore} \cup {Str(<<"n", "o", "s", "u", "c", "h">>)}

\* UrlRow::incr_click: the caller's copy of the row.
IncrClick(row) == [row EXCEPT !.clicks = row.clicks + 1]

\* An UPDATE that writes the count of the caller's copy of the row.
IncrUrlClicks_FromCopy(row, table) ==
    {IF r.id = row.id THEN [r EXCEPT !.clicks = IncrClick(row).clicks] ELSE r : r \in table}

\* incr_url_clicks: UPDATE urls SET clicks = clicks + 1 WHERE id = $1, one
\* statement, which the database applies to the stored count.
IncrUrlClicks(row, table) ==
    {IF r.id = row.id THEN [r EXCEPT !.clicks = r.clicks + 1] ELSE r : r \in table}

\* not_found_handler
NotFoundHandler == [status |-> NOT_FOUND, headers |-> {}]

\* consume_short_url, lines 288-299: the Location is the long url, with
\* "http://" put before it unless it starts with "http".
RedirectResponse(url_row) ==
    LET long == IF StartsWith(url_row.longurl, HTTP_PREFIX)
                THEN url_row.longurl
                ELSE Str(<<"h", "t", "t", "p", ":", "/", "/">>) \o url_row.longurl
    IN  [status |-> MOVED_PERMANENTLY, headers |-> {<<"location", long>>}]

\* A caller before its first request: nothing sent, no redirect received.
ClickIdle == [pc |-> "idle", requests |-> 0, hits |-> [r \in ClickStore |-> 0]]

ClickInit ==
    /\ urls = ClickStore
    /\ urls_id_seq = Cardinality(ClickStore)
    /\ procs = [p \in Callers |-> ClickIdle]
    /\ created = {}
    /\ lastRetrieved = None
    /\ users = {}
    /\ users_id_seq = 0
    /\ now = 0
    /\ lastLogin = None
    /\ failures = {}
    /\ lastAuth = None
    /\ token = None
    /\ sealed = None
    /\ tampers = 0
    /\ finalized = None
    /\ verified = None
    /\ parsed = None
    /\ stored = None
    /\ pwResult = None
    /\ encoded = None

ClickFrame ==
    UNCHANGED <<urls_id_seq, created, lastRetrieved, jwtVars, pwVars, serverVars, lastAuth,
                encVars>>

\* Requests the callers up to p have sent.
RECURSIVE RequestsSent(_)
RequestsSent(p) == IF p = 0 THEN 0 ELSE procs[p].requests + RequestsSent(p - 1)

\* consume_short_url, lines 281-284: the row is looked up; an Err is answered
\* with not_found_handler and the request ends.
ClickLookup(p, url) ==
    /\ procs[p].pc \in {"idle", "done"}
    /\ RequestsSent(MaxCallers) < MaxRequests
    /\ \E found \in RetrieveUrlObj(url, urls) :
          procs' = [procs EXCEPT ![p] =
                       IF found.ok
                       THEN [pc |-> "incr", requests |-> procs[p].requests + 1,
                             hits |-> procs[p].hits, url |-> url, url_row |-> found.val]
                       ELSE [pc |-> "done", requests |-> procs[p].requests + 1,
                             hits |-> procs[p].hits, url |-> url, res |-> NotFoundHandler]]
    /\ UNCHANGED urls
    /\ ClickFrame

\* consume_short_url, lines 286-299: the click is counted, in the caller's
\* copy and in the store, and the redirect is answered.
ClickRedirect(p) ==
    /\ procs[p].pc = "incr"
    /\ urls' = IncrUrlClicks(procs[p].url_row, urls)
    /\ procs' = [procs EXCEPT ![p] =
                    [pc |-> "done", requests |-> procs[p].requests,
                     hits |-> [r \in ClickStore |->
                                  IF r.id = procs[p].url_row.id
                                  THEN procs[p].hits[r] + 1 ELSE procs[p].hits[r]],
                     url |-> procs[p].url, url_row |-> IncrClick(procs[p].url_row),
                     res |-> RedirectResponse(procs[p].url_row)]]
    /\ ClickFrame

ClickNext ==
    \/ \E p \in Callers : \E url \in RequestedUrls : ClickLookup(p, url)
    \/ \E p \in Callers : ClickRedirect(p)

ClickSpec == ClickInit /\ [][ClickNext]_vars

\* Redirects the callers up to p have received for the row first stored as r.
RECURSIVE RedirectsTo(_, _)
RedirectsTo(r, p) == IF p = 0 THEN 0 ELSE procs[p].hits[r] + RedirectsTo(r, p - 1)

\* C27: each successful redirect through consume_short_url raises the stored
\* click count of that short url by exactly one, so after n redirects of it,
\* however interleaved, the count is n higher; a request for a short url that
\* is not stored is answered 404 and changes no click count.
C27_ClicksCountRedirects ==
    /\ [](\A r \in ClickStore : \E row \in urls :
             /\ row = [r EXCEPT !.clicks = r.clicks + RedirectsTo(r, MaxCallers)]
             /\ \A other \in urls : other.id = row.id => other = row)
    /\ [](\A p \in Callers :
             procs[p].pc = "done" =>
                 IF \E r \in ClickStore : r.shorturl = procs[p].url
                 THEN procs[p].res.status = MOVED_PERMANENTLY
                 ELSE procs[p].res.status = NOT_FOUND)
    /\ [][\A p \in Callers :
             (procs'[p] # procs[p] /\ procs'[p].pc = "done"
                 /\ procs'[p].res.status = NOT_FOUND) => urls' = urls]_vars

\* Two callers were redirected through the same short url, each having read
\* the row before the other's update: both copies count one click, the store
\* counts two.
C27_Witness ==
    \E p \in Callers : \E q \in Callers :
        /\ p # q
        /\ procs[p].pc = "done" /\ procs[q].pc = "done"
        /\ procs[p].requests = 1 /\ procs[q].requests = 1
        /\ procs[p].res.status = MOVED_PERMANENTLY
        /\ procs[q].res.status = MOVED_PERMANENTLY
        /\ procs[p].url_row.id = procs[q].url_row.id
        /\ procs[p].url_row.clicks = 1 /\ procs[q].url_row.clicks = 1
        /\ \E row \in urls : row.id = procs[p].url_row.id /\ row.clicks = 2

=============================================================================
